---- MODULE Spec2Model ----
(***************************************************************************)
(* A model of the ULearningCWAuto synchronisation engine:                  *)
(*   - HttpClient.get / HttpClient.post          (services/http_client.py) *)
(*   - DataManager.parse_study_record_info       (services/data_manager.py)*)
(*   - ModelCourse.prune and the prunes below it (models/course.py,        *)
(*                                                models/courseware.py)    *)
(*   - DataManager.build_sync_study_record_request                         *)
(*   - CoursewareManager.__start_courseware      (courseware_manager.py)   *)
(* Each part has its own specification (SpecHttp, SpecRecord, SpecPrune,   *)
(* SpecReport, SpecRun); the variables of the other parts stay idle.       *)
(***************************************************************************)
EXTENDS Integers, Sequences, FiniteSets, TLC

VARIABLES
    \* HttpClient.get / HttpClient.post
    http_pc,            \* "idle" | "attempt" | "sleep" | "done"
    method,             \* "GET" | "POST"
    entry_retry,        \* the retry parameter the caller passed
    retry,              \* the retry parameter of the running (recursive) call
    follow_redirects,   \* the follow_redirects parameter of the running call
    timeout,            \* the timeout parameter of the running call
    outcomes,           \* what each transport attempt of the call ended with
    result,             \* the value the outermost call returns
    client,             \* self.__client: the AsyncClient in use
    new_client,         \* re_create_client: new_client, or None
    rot_pc,             \* re_create_client: "idle" | "closing"
    sent_on,            \* the client each attempt of the call was made on
    \* the course tree and the operations on it
    tree_pc,            \* "idle" | "fetched" | "parsed" | "once" | "twice"
    course_config,      \* the ModelCourse operated on
    course_before,      \* the tree as it was before the operation
    course_once,        \* the tree after the first of two prunes
    textbook_id,        \* parse_study_record_info: textbook_id
    study_record_info,  \* parse_study_record_info: study_record_info
    parse_status,       \* what parse_study_record_info returned
    remove_complete,    \* prune: remove_complete
    textbook_info,      \* parse_textbook_info: textbook_info
    chapter_info,       \* parse_chapter_info: chapter_info
    parsed_study_record_infos,  \* the refresh: the gathered study records
    \* DataManager.build_sync_study_record_request
    rep_pc,             \* "idle" | "built"
    section_info,       \* the CoursewareSection reported
    study_time_config,  \* ConfigModel.StudyTime
    is_first,           \* the is_first argument
    report,             \* the request built, or None
    \* CoursewareManager.__start_courseware
    run_pc,             \* "start" | "init" | "ping" | "build" | "sync" | "sleep"
                        \* | "cooldown" | "refresh" | "prune" | "done"
    courses,            \* self.user_config.courses
    unit_idx,           \* position of the textbook loops
    handler_is_first,   \* courseware_handler: is_first
    sec_idx,            \* position of the chapter and section loops
    ping_idx,           \* position of the page loop of the second pass
    study_start_time,   \* courseware_handler: study_start_time
    handler_retry,      \* courseware_handler: retry
    sect,               \* what was done for the section entered last, in its pass
    book,               \* what was done for the textbook entered last
    textbooks_done,     \* the book of every textbook finished
    finish,             \* how the run ended, and what its final clean-up did
    \* CoursewareManager.__complete_courseware
    enrich_pc,          \* "idle" | "gather" | "textbook" | "chapter" | "section"
                        \* | "element" | "answers" | "prune" | "done" | "failed"
    no_data,            \* the requests the server has no data for
    enriching,          \* course_config[course_id], the course being completed
    gathered,           \* the asyncio.gather awaited: its coroutines and results
    parsed_infos,       \* parsed_textbook_infos, parsed_chapter_infos,
                        \* parsed_study_record_infos, parsed_question_answer_lists
    position,           \* position of the loops of __complete_courseware
    out_of_order,       \* some read completed ahead of one issued before it
    user_courses,       \* self.user_config.courses and whether config.save() wrote them
    \* the menus of CoursewareManager and of UserManager
    manage,             \* the operation of the courseware menu under way
    accounts            \* self.config.users and the __add_user under way

httpVars == <<http_pc, method, entry_retry, retry, follow_redirects, timeout, outcomes,
              result, client, new_client, rot_pc, sent_on>>

treeVars == <<tree_pc, course_config, course_before, course_once, textbook_id,
              study_record_info, parse_status, remove_complete, textbook_info,
              chapter_info, parsed_study_record_infos>>

repVars == <<rep_pc, section_info, study_time_config, is_first, report>>

runVars == <<run_pc, courses, unit_idx, handler_is_first, sec_idx, ping_idx,
             study_start_time, handler_retry, sect, book, textbooks_done,
             finish>>

enrVars == <<enrich_pc, no_data, enriching, gathered, parsed_infos, position,
             out_of_order, user_courses>>

mgrVars == <<manage, accounts>>

vars == <<httpVars, treeVars, repVars, runVars, enrVars, mgrVars>>

(***************************************************************************)
(* Values shared by the parts.                                             *)
(***************************************************************************)
None == [kind |-> "None"]

(***************************************************************************)
(* The course tree: Course -> Textbook -> Chapter -> Section -> Page.      *)
(* A dict is a function; an empty dict is the function of empty domain.    *)
(***************************************************************************)
\* Most pages of a section in the trees tried.
MaxPages == 2

\* Most page entries of a study record in the records tried.
MaxEntries == 2

TextbookIds == {1, 2}
ChapterIds == {1, 2}
SectionIds == {1, 2}
RelationIds == {1, 2}

\* `complete: int`, 0: not complete, 1: complete
Flags == {0, 1}

EmptyDict == <<>>

CoursewarePage(pid, rid, ctype, done, elems) ==
    [page_id |-> pid, page_relation_id |-> rid, page_name |-> "page",
     page_content_type |-> ctype, is_complete |-> done, elements |-> elems]

CoursewareSection(sid, pages) ==
    [section_id |-> sid, section_name |-> "section", pages |-> pages]

CoursewareChapter(cid, sections) ==
    [chapter_id |-> cid, chapter_name |-> "chapter", sections |-> sections]

ModelTextbook(tid, chapters) ==
    [textbook_id |-> tid, textbook_name |-> "textbook", status |-> 1,
     limit |-> 0, chapters |-> chapters]

ModelCourse(textbooks) ==
    [course_id |-> 1, course_name |-> "course", class_id |-> 1,
     class_user_id |-> 1, textbooks |-> textbooks]

NoCourse == ModelCourse(EmptyDict)

NoRecord == [node_id |-> 0, item_id |-> 0, pageStudyRecordDTOList |-> <<>>]

TreeIdle ==
    /\ tree_pc = "idle"
    /\ course_config = NoCourse
    /\ course_before = NoCourse
    /\ course_once = NoCourse
    /\ textbook_id = 0
    /\ study_record_info = NoRecord
    /\ parse_status = None
    /\ remove_complete = FALSE
    /\ textbook_info = None
    /\ chapter_info = None
    /\ parsed_study_record_infos = EmptyDict

\* No asyncio.gather awaited, nothing parsed, the loops not entered.
NoGather == [level |-> "none", coros |-> <<>>, results |-> <<>>, arrival |-> <<>>]

NothingParsed ==
    [textbooks |-> EmptyDict, chapters |-> EmptyDict, records |-> EmptyDict,
     answers |-> EmptyDict]

NotEntered == [textbook |-> 0, chapter |-> 0, section |-> 0, page |-> 0, element |-> 0]

\* The configuration before __courseware_config has assigned and saved the
\* courses.
NotSaved == [courses |-> EmptyDict, saved |-> FALSE]

EnrichIdle ==
    /\ enrich_pc = "done"
    /\ no_data = {}
    /\ enriching = NoCourse
    /\ gathered = NoGather
    /\ parsed_infos = NothingParsed
    /\ position = NotEntered
    /\ out_of_order = FALSE
    /\ user_courses = NotSaved

\* No operation of the courseware menu under way and none done.
NoOperation ==
    [pc |-> "menu", op |-> "none", outcome |-> "none", ops |-> 0,
     before |-> EmptyDict, selected_course_ids |-> {}, todo |-> <<>>,
     selected_course_textbook_infos |-> EmptyDict, chosen |-> {},
     selected_textbook_ids |-> {}, course_config |-> EmptyDict, picks |-> {}]

\* No user configured and no __add_user under way.
NoAccounts ==
    [pc |-> "menu", users |-> EmptyDict, before |-> EmptyDict, username |-> "",
     overwrite |-> FALSE, retry |-> 0, logins |-> 0, adds |-> 0,
     outcome |-> "none"]

ManageIdle ==
    /\ manage = NoOperation
    /\ accounts = NoAccounts

NoDraw == [int |-> 0, uniform |-> 0, now |-> 0]

ReportIdle ==
    /\ rep_pc = "idle"
    /\ section_info = CoursewareSection(0, EmptyDict)
    /\ study_time_config = [question |-> [min |-> 180, max |-> 360],
                            document |-> [min |-> 180, max |-> 360],
                            content |-> [min |-> 180, max |-> 360]]
    /\ is_first = TRUE
    /\ report = None

\* Nothing done yet for a section in a pass, and for a textbook.
NewSect ==
    [unit |-> 0, section |-> 0, first |-> TRUE, init |-> "none", pings |-> 0,
     ping_rejected |-> FALSE, sync_calls |-> 0, accepted |-> FALSE,
     outcome |-> "none"]

NewBook ==
    [sections |-> 0, handled_first |-> 0, refresh_calls |-> 0,
     handled_second |-> 0, first_init_failed |-> {},
     inits_first |-> 0, inits_second |-> 0]

\* The run has not ended and its final clean-up has not run.
NotFinished ==
    [outcome |-> "none", refreshes |-> 0, prunes |-> 0, warned |-> FALSE]

RunIdle ==
    /\ run_pc = "done"
    /\ courses = EmptyDict
    /\ unit_idx = 0
    /\ handler_is_first = TRUE
    /\ sec_idx = 0
    /\ ping_idx = 0
    /\ study_start_time = 0
    /\ handler_retry = 0
    /\ sect = NewSect
    /\ book = NewBook
    /\ textbooks_done = <<>>
    /\ finish = NotFinished

Restrict(f, S) == [x \in S |-> f[x]]

\* Sequences over S of length at most n.
SeqUpTo(S, n) == UNION {[1..k -> S] : k \in 0..n}

(***************************************************************************)
(* HttpClient                                                              *)
(***************************************************************************)
Methods == {"GET", "POST"}

\* Status codes a server may answer with; the client returns any of them.
StatusCodes == {200, 302, 404, 500}

\* `timeout: int = 8`
DefaultTimeout == 8

\* Timeouts callers pass: the default and the version check's.
Timeouts == {DefaultTimeout, 3}

\* `retry: int = 0`
DefaultRetry == 0

\* Retry counts callers pass: the default, and VersionManager's proxy probe
\* (`self.client.get(url=proxy, timeout=1, retry=2)`).
EntryRetries == {DefaultRetry, 2}

Response(status) == [kind |-> "Response", status |-> status]

\* httpx.AsyncClient: its Authorization header, its cookies, and whether it
\* was closed. The n-th client made has id n.
AsyncClient(id, token, cookies) ==
    [id |-> id, token |-> token, cookies |-> cookies, closed |-> FALSE]

\* What an attempt is made on: the client self.__client refers to when the
\* attempt starts, as it is then.
SentOn == [client |-> client, rotating |-> rot_pc = "closing"]

HttpIdle ==
    /\ http_pc = "idle"
    /\ method = "GET"
    /\ entry_retry = 0
    /\ retry = 0
    /\ follow_redirects = FALSE
    /\ timeout = DefaultTimeout
    /\ outcomes = <<>>
    /\ result = None
    /\ client = AsyncClient(1, "token", {"cookie"})
    /\ new_client = None
    /\ rot_pc = "idle"
    /\ sent_on = <<>>

\* `if retry >= 3` with the bound off by one.
RetryExhaustedLate(r) == r > 3

\* `if retry >= 3: return None`
RetryExhausted(r) == r >= 3

\* A caller starts get(...) or post(...) with the retry count it passes.
HttpCall(m, fr, t, r) ==
    /\ UNCHANGED <<treeVars, repVars, runVars, enrVars, mgrVars>>
    /\ http_pc = "idle"
    /\ http_pc' = "attempt"
    /\ method' = m
    /\ entry_retry' = r
    /\ retry' = r
    /\ follow_redirects' = fr
    /\ timeout' = t
    /\ outcomes' = <<>>
    /\ result' = None
    /\ sent_on' = <<SentOn>>
    /\ UNCHANGED <<client, new_client, rot_pc>>

\* `return await self.__client.get(...)`: the transport yields a response.
\* A client that was closed when the attempt started sends nothing: it
\* raises a RuntimeError, which is neither a response nor a transport error.
HttpRespond(status) ==
    /\ UNCHANGED <<treeVars, repVars, runVars, enrVars, mgrVars>>
    /\ http_pc = "attempt"
    /\ ~sent_on[Len(sent_on)].client.closed
    /\ outcomes' = Append(outcomes, "response")
    /\ result' = Response(status)
    /\ http_pc' = "done"
    /\ UNCHANGED <<method, entry_retry, retry, follow_redirects, timeout>>
    /\ UNCHANGED <<client, new_client, rot_pc, sent_on>>

\* `except httpx.TransportError`: give up after the last retry, else sleep.
HttpTransportError ==
    /\ UNCHANGED <<treeVars, repVars, runVars, enrVars, mgrVars>>
    /\ http_pc = "attempt"
    /\ ~sent_on[Len(sent_on)].client.closed
    /\ outcomes' = Append(outcomes, "transport")
    /\ IF RetryExhausted(retry)
          THEN /\ result' = None
               /\ http_pc' = "done"
          ELSE /\ result' = result
               /\ http_pc' = "sleep"
    /\ UNCHANGED <<method, entry_retry, retry, follow_redirects, timeout>>
    /\ UNCHANGED <<client, new_client, rot_pc, sent_on>>

\* After `asyncio.sleep(0.5)` the call recurses with retry + 1; the recursive
\* call does not pass follow_redirects, which falls back to its default.
HttpRetry ==
    /\ UNCHANGED <<treeVars, repVars, runVars, enrVars, mgrVars>>
    /\ http_pc = "sleep"
    /\ retry' = retry + 1
    /\ follow_redirects' = FALSE
    /\ http_pc' = "attempt"
    /\ sent_on' = Append(sent_on, SentOn)
    /\ UNCHANGED <<method, entry_retry, timeout, outcomes, result>>
    /\ UNCHANGED <<client, new_client, rot_pc>>

\* `except Exception` handled as a transport error is: give up after the
\* last retry, else sleep and try again.
HttpOtherErrorRetried ==
    /\ UNCHANGED <<treeVars, repVars, runVars, enrVars, mgrVars>>
    /\ http_pc = "attempt"
    /\ outcomes' = Append(outcomes, "error")
    /\ IF RetryExhausted(retry)
          THEN /\ result' = None
               /\ http_pc' = "done"
          ELSE /\ result' = result
               /\ http_pc' = "sleep"
    /\ UNCHANGED <<method, entry_retry, retry, follow_redirects, timeout>>
    /\ UNCHANGED <<client, new_client, rot_pc, sent_on>>

\* `except Exception`: any other failure returns None at once.
HttpOtherError ==
    /\ UNCHANGED <<treeVars, repVars, runVars, enrVars, mgrVars>>
    /\ http_pc = "attempt"
    /\ outcomes' = Append(outcomes, "error")
    /\ result' = None
    /\ http_pc' = "done"
    /\ UNCHANGED <<method, entry_retry, retry, follow_redirects, timeout>>
    /\ UNCHANGED <<client, new_client, rot_pc, sent_on>>

\* The caller takes the returned value; the client is free for the next call.
HttpReturn ==
    /\ UNCHANGED <<treeVars, repVars, runVars, enrVars, mgrVars>>
    /\ http_pc = "done"
    /\ http_pc' = "idle"
    /\ method' = "GET"
    /\ entry_retry' = 0
    /\ retry' = 0
    /\ follow_redirects' = FALSE
    /\ timeout' = DefaultTimeout
    /\ outcomes' = <<>>
    /\ result' = None
    /\ sent_on' = <<>>
    /\ UNCHANGED <<client, new_client, rot_pc>>

InitHttp == HttpIdle /\ TreeIdle /\ ReportIdle /\ RunIdle /\ EnrichIdle /\ ManageIdle

NextHttp ==
    \/ \E m \in Methods, fr \in BOOLEAN, t \in Timeouts, r \in EntryRetries :
          HttpCall(m, fr, t, r)
    \/ \E s \in StatusCodes : HttpRespond(s)
    \/ HttpTransportError
    \/ HttpRetry
    \/ HttpOtherError
    \/ HttpReturn

SpecHttp == InitHttp /\ [][NextHttp]_vars

(***************************************************************************)
(* HttpClient.re_create_client, run by a coroutine that shares the client  *)
(* with the coroutine of the call                                          *)
(***************************************************************************)
\* Most rotations of one client.
MaxRotations == 1

\* The token parameter: its default, which keeps the token, or a new token.
RotationTokens == {"abc", "token2"}

\* The cookies parameter: nothing (its default, `if cookies` is false), or
\* new cookies.
RotationCookies == {{}, {"cookie2"}}

\* re_create_client up to `await self.__client.aclose()`: the new token is
\* written to the headers of the client in use, the new client takes the
\* headers and cookies of the client in use and then the new cookies, and
\* the client in use starts to close (httpx marks it closed at once).
ReCreateClient(token, cookies) ==
    /\ rot_pc = "idle"
    /\ client.id <= MaxRotations
    /\ rot_pc' = "closing"
    /\ LET authorization == IF token # "abc" THEN token ELSE client.token
       IN  /\ client' = [client EXCEPT !.token = authorization, !.closed = TRUE]
           /\ new_client' =
                 AsyncClient(client.id + 1, authorization,
                             client.cookies \cup cookies)
    /\ UNCHANGED <<http_pc, method, entry_retry, retry, follow_redirects, timeout,
                   outcomes, result, sent_on>>
    /\ UNCHANGED <<treeVars, repVars, runVars, enrVars, mgrVars>>

\* aclose() returns: `self.__client = new_client; return True`
ClientReplaced ==
    /\ rot_pc = "closing"
    /\ rot_pc' = "idle"
    /\ client' = new_client
    /\ new_client' = None
    /\ UNCHANGED <<http_pc, method, entry_retry, retry, follow_redirects, timeout,
                   outcomes, result, sent_on>>
    /\ UNCHANGED <<treeVars, repVars, runVars, enrVars, mgrVars>>

NextRotate ==
    \/ NextHttp
    \/ \E token \in RotationTokens, cookies \in RotationCookies :
          ReCreateClient(token, cookies)
    \/ ClientReplaced

SpecRotate == InitHttp /\ [][NextRotate]_vars

\* C25: a rotation is atomic for the coroutines that share the client. An
\* attempt started while a rotation is in progress is not sent on the
\* closed client nor with the new token and the old cookies: it fails; and
\* a call that returns a response got it from the client its first attempt
\* was made on.
C25_Original ==
    /\ \A i \in 1..Len(outcomes) : sent_on[i].rotating => outcomes[i] = "error"
    /\ http_pc = "done" =>
          \/ result = None
          \/ sent_on[Len(sent_on)].client.id = sent_on[1].client.id

\* C1 as stated: every call whose transport attempts all fail makes exactly
\* 4 attempts and returns None; a response at attempt k <= 4 is returned at
\* once.
C1_Original ==
    /\ Len(outcomes) <= 4
    /\ http_pc = "done" =>
        /\ (\A i \in 1..Len(outcomes) : outcomes[i] = "transport")
              => (Len(outcomes) = 4 /\ result = None)
        /\ \A k \in 1..Len(outcomes) :
              outcomes[k] = "response"
                 => (k = Len(outcomes) /\ result.kind = "Response")

\* C1 (amended): a call entered with retry = r whose transport attempts all
\* fail makes exactly 4 - r attempts (4 with the default r = 0: the original
\* and 3 retries) and returns None; when some attempt yields a response, that
\* response is returned and it is the last attempt of the call.
C1_RetryCeiling ==
    /\ Len(outcomes) <= 4 - entry_retry
    /\ http_pc = "done" =>
        /\ (\A i \in 1..Len(outcomes) : outcomes[i] = "transport")
              => (Len(outcomes) = 4 - entry_retry /\ result = None)
        /\ \A k \in 1..Len(outcomes) :
              outcomes[k] = "response"
                 => (k = Len(outcomes) /\ result.kind = "Response")
    /\ \A k \in 1..Len(outcomes) :
          outcomes[k] = "response" => http_pc = "done"

\* All four attempts of a default call failed at the transport.
C1_AllFailed ==
    /\ http_pc = "done"
    /\ entry_retry = 0
    /\ outcomes = <<"transport", "transport", "transport", "transport">>
    /\ result = None

\* C24: get and post do not retry an outcome that is not a transport error:
\* an attempt that fails with another error is the last attempt of the call,
\* which returns None; an attempt that yields a response, of whatever status
\* code, is the last attempt of the call, which returns the response.
C24_NonTransportNotRetried ==
    \A k \in 1..Len(outcomes) :
       outcomes[k] # "transport" =>
          /\ k = Len(outcomes)
          /\ http_pc = "done"
          /\ outcomes[k] = "error" => result = None
          /\ outcomes[k] = "response" =>
                (result.kind = "Response" /\ result.status \in StatusCodes)

\* C24 happens: a call whose first attempt failed at the transport and
\* whose second attempt failed with another error returned None after it.
C24_OtherErrorEndsCall ==
    /\ http_pc = "done"
    /\ entry_retry = 0
    /\ outcomes = <<"transport", "error">>
    /\ result = None

(***************************************************************************)
(* DataManager.parse_study_record_info                                     *)
(***************************************************************************)
\* Python's bool() of an int.
Bool(x) == x # 0

\* The inner loop of one page_info, matching page_id instead of the relation id.
MarkPagesByPageId(pages, page_info) ==
    [pid \in DOMAIN pages |->
        IF pages[pid].page_id = page_info.pageid
           THEN [pages[pid] EXCEPT !.is_complete = Bool(page_info.complete)]
           ELSE pages[pid]]

\* The inner loop of one page_info: every page of the section whose
\* page_relation_id equals page_info.pageid takes the record's flag.
MarkPages(pages, page_info) ==
    [pid \in DOMAIN pages |->
        IF pages[pid].page_relation_id = page_info.pageid
           THEN [pages[pid] EXCEPT !.is_complete = Bool(page_info.complete)]
           ELSE pages[pid]]

\* The outer loop running over the list backwards, so that the first entry
\* naming a relation id wins instead of the last.
RECURSIVE MarkAllBackwards(_, _, _)
MarkAllBackwards(pages, list, i) ==
    IF i > Len(list) THEN pages
    ELSE MarkPages(MarkAllBackwards(pages, list, i + 1), list[i])

\* The outer loop over pageStudyRecordDTOList, from entry i on.
RECURSIVE MarkAll(_, _, _)
MarkAll(pages, list, i) ==
    IF i > Len(list) THEN pages
    ELSE CHOOSE marked \in {MarkAll(next, list, i + 1) :
                               next \in {MarkPages(pages, list[i])}} : TRUE

\* The three lookups of the "create references" block raise KeyError when the
\* textbook, the chapter or the section is not in the tree.
HasSection(course, tid, cid, sid) ==
    /\ tid \in DOMAIN course.textbooks
    /\ cid \in DOMAIN course.textbooks[tid].chapters
    /\ sid \in DOMAIN course.textbooks[tid].chapters[cid].sections

\* parse_study_record_info as a function: the returned bool and the tree.
ParseStudyRecordInfo(course, tid, record) ==
    LET cid == record.node_id
        sid == record.item_id
    IN  IF ~HasSection(course, tid, cid, sid)
           THEN [status |-> FALSE, course_config |-> course]
           ELSE [status |-> TRUE,
                 course_config |->
                    [course EXCEPT
                       !.textbooks[tid].chapters[cid].sections[sid].pages =
                          MarkAll(@, record.pageStudyRecordDTOList, 1)]]

\* The page dicts tried: pages 1..k, each with a relation id and a flag.
RecordPages ==
    UNION {[1..k -> {CoursewarePage(0, rid, 5, done, <<>>) :
                        rid \in RelationIds, done \in BOOLEAN}]
             : k \in 0..MaxPages}

\* Keys the pages by their own page_id.
Keyed(pages) == [pid \in DOMAIN pages |-> [pages[pid] EXCEPT !.page_id = pid]]

\* The same pages under two textbooks, three chapters and four sections, so
\* that every relation id of a section also occurs outside it.
RecordTree(pages) ==
    ModelCourse(
        (1 :> ModelTextbook(1,
                 (1 :> CoursewareChapter(1,
                          (1 :> CoursewareSection(1, pages))
                          @@ (2 :> CoursewareSection(2, pages))))
                 @@ (2 :> CoursewareChapter(2,
                          (1 :> CoursewareSection(1, pages))))))
        @@ (2 :> ModelTextbook(2,
                 (1 :> CoursewareChapter(1,
                          (1 :> CoursewareSection(1, pages)))))))

StudyRecords ==
    {[node_id |-> c, item_id |-> i, pageStudyRecordDTOList |-> l] :
        c \in ChapterIds, i \in SectionIds,
        l \in SeqUpTo([pageid : RelationIds, complete : Flags], MaxEntries)}

InitRecord ==
    /\ HttpIdle
    /\ EnrichIdle
    /\ ManageIdle
    /\ ReportIdle
    /\ RunIdle
    /\ tree_pc = "idle"
    /\ course_config \in {RecordTree(Keyed(p)) : p \in RecordPages}
    /\ course_before = NoCourse
    /\ course_once = NoCourse
    /\ textbook_id = 0
    /\ study_record_info = NoRecord
    /\ parse_status = None
    /\ remove_complete = FALSE
    /\ textbook_info = None
    /\ chapter_info = None
    /\ parsed_study_record_infos = EmptyDict

\* A study record of some section arrives for a textbook.
FetchStudyRecord(tid, record) ==
    /\ tree_pc = "idle"
    /\ tree_pc' = "fetched"
    /\ textbook_id' = tid
    /\ study_record_info' = record
    /\ UNCHANGED <<course_config, course_before, course_once, parse_status,
                   remove_complete, textbook_info, chapter_info,
                   parsed_study_record_infos>>
    /\ UNCHANGED <<httpVars, repVars, runVars, enrVars, mgrVars>>

\* parse_study_record_info(course_config, textbook_id, study_record_info)
ParseStudyRecord ==
    /\ tree_pc = "fetched"
    /\ tree_pc' = "parsed"
    /\ course_before' = course_config
    /\ LET r == ParseStudyRecordInfo(course_config, textbook_id, study_record_info)
       IN  /\ course_config' = r.course_config
           /\ parse_status' = r.status
    /\ UNCHANGED <<course_once, textbook_id, study_record_info, remove_complete,
                   textbook_info, chapter_info,
                   parsed_study_record_infos>>
    /\ UNCHANGED <<httpVars, repVars, runVars, enrVars, mgrVars>>

NextRecord ==
    \/ \E tid \in TextbookIds, record \in StudyRecords : FetchStudyRecord(tid, record)
    \/ ParseStudyRecord

SpecRecord == InitRecord /\ [][NextRecord]_vars

\* The section a study record names, in a tree that holds it.
RecordSection(course) ==
    course.textbooks[textbook_id].chapters[study_record_info.node_id]
          .sections[study_record_info.item_id]

RecordList == study_record_info.pageStudyRecordDTOList

\* The indexes of the record's entries that name relation id rid.
EntriesOf(rid) == {i \in 1..Len(RecordList) : RecordList[i].pageid = rid}

Max(S) == CHOOSE x \in S : \A y \in S : y <= x

\* C2: after parse_study_record_info for a record whose chapter and section
\* are in the tree, every page of that section whose page_relation_id is the
\* pageid of a record entry has is_complete true if the last such entry has
\* flag 1 and false if it has flag 0.
C2_FlagApplied ==
    (tree_pc = "parsed"
        /\ HasSection(course_before, textbook_id, study_record_info.node_id,
                      study_record_info.item_id))
    => /\ parse_status = TRUE
       /\ \A pid \in DOMAIN RecordSection(course_config).pages :
             LET page == RecordSection(course_config).pages[pid]
                 hits == EntriesOf(page.page_relation_id)
             IN  hits # {} =>
                    /\ RecordList[Max(hits)].complete = 1 => page.is_complete = TRUE
                    /\ RecordList[Max(hits)].complete = 0 => page.is_complete = FALSE

\* A page that was incomplete is complete after a record that names its
\* relation id twice, first with flag 0 and last with flag 1.
C2_Marked ==
    /\ tree_pc = "parsed"
    /\ parse_status = TRUE
    /\ \E pid \in DOMAIN RecordSection(course_config).pages :
          LET old == RecordSection(course_before).pages[pid]
              new == RecordSection(course_config).pages[pid]
              hits == EntriesOf(old.page_relation_id)
          IN  /\ ~old.is_complete
              /\ new.is_complete
              /\ Cardinality(hits) = 2
              /\ \E i \in hits : RecordList[i].complete = 0

\* The paths of all pages of a tree.
PagePaths(course) ==
    {<<t, c, s, p>> \in TextbookIds \X ChapterIds \X SectionIds \X (1..MaxPages) :
        /\ HasSection(course, t, c, s)
        /\ p \in DOMAIN course.textbooks[t].chapters[c].sections[s].pages}

PageAt(course, path) ==
    course.textbooks[path[1]].chapters[path[2]].sections[path[3]].pages[path[4]]

\* The tree with every page's is_complete set to FALSE.
UnflaggedPages(pages) ==
    [p \in DOMAIN pages |-> [pages[p] EXCEPT !.is_complete = FALSE]]

UnflaggedSections(sections) ==
    [x \in DOMAIN sections |->
        [sections[x] EXCEPT !.pages = UnflaggedPages(sections[x].pages)]]

UnflaggedChapters(chapters) ==
    [c \in DOMAIN chapters |->
        [chapters[c] EXCEPT !.sections = UnflaggedSections(chapters[c].sections)]]

Unflagged(course) ==
    [course EXCEPT !.textbooks =
        [t \in DOMAIN course.textbooks |->
            [course.textbooks[t] EXCEPT
                !.chapters = UnflaggedChapters(course.textbooks[t].chapters)]]]

InRecordSection(path) ==
    /\ path[1] = textbook_id
    /\ path[2] = study_record_info.node_id
    /\ path[3] = study_record_info.item_id

\* C3: parse_study_record_info matches by page_relation_id only: a page whose
\* page_relation_id is not in the record keeps is_complete, also when its
\* page_id is a pageid of the record; the pages of every other section,
\* chapter and textbook and every field other than is_complete are unchanged.
C3_Frame ==
    tree_pc = "parsed"
    => /\ Unflagged(course_config) = Unflagged(course_before)
       /\ \A path \in PagePaths(course_before) :
             (~InRecordSection(path)
                 \/ EntriesOf(PageAt(course_before, path).page_relation_id) = {})
             => PageAt(course_config, path) = PageAt(course_before, path)

\* The record changed one page of its section and left alone another page
\* of that section whose page_id, but not relation id, it names.
C3_PageIdNamed ==
    /\ tree_pc = "parsed"
    /\ parse_status = TRUE
    /\ course_config # course_before
    /\ \E pid \in DOMAIN RecordSection(course_before).pages :
          /\ EntriesOf(pid) # {}
          /\ EntriesOf(RecordSection(course_before).pages[pid].page_relation_id) = {}
          /\ \E i \in EntriesOf(pid) :
                Bool(RecordList[i].complete)
                   # RecordSection(course_before).pages[pid].is_complete

(***************************************************************************)
(* CoursewareSection.prune, CoursewareChapter.prune, ModelTextbook.prune,  *)
(* ModelCourse.prune.  Each loop runs over a copy of the dict and pops     *)
(* from the dict itself, so the result is the dict restricted to the keys  *)
(* that are not popped.                                                    *)
(***************************************************************************)
\* CoursewareSection.prune: pop every page with is_complete.
SectionPrune(section) ==
    [section EXCEPT !.pages =
        Restrict(@, {pid \in DOMAIN @ : ~@[pid].is_complete})]

\* CoursewareChapter.prune testing `if not section.pages` before
\* `section.prune()` instead of after it.
ChapterPruneTestFirst(chapter, rc) ==
    LET kept == {sid \in DOMAIN chapter.sections :
                    DOMAIN chapter.sections[sid].pages # {}}
    IN  [chapter EXCEPT !.sections =
            [sid \in kept |->
                IF rc THEN SectionPrune(chapter.sections[sid])
                      ELSE chapter.sections[sid]]]

\* CoursewareChapter.prune: prune each section when remove_complete, then pop
\* the section if it has no pages.
ChapterPrune(chapter, rc) ==
    LET pruned == [sid \in DOMAIN chapter.sections |->
                      IF rc THEN SectionPrune(chapter.sections[sid])
                            ELSE chapter.sections[sid]]
    IN  [chapter EXCEPT !.sections =
            Restrict(pruned, {sid \in DOMAIN pruned : DOMAIN pruned[sid].pages # {}})]

\* ModelTextbook.prune that never passes remove_complete on.
TextbookPruneKeepComplete(textbook, rc) ==
    LET pruned == [cid \in DOMAIN textbook.chapters |->
                      ChapterPrune(textbook.chapters[cid], FALSE)]
    IN  [textbook EXCEPT !.chapters =
            Restrict(pruned, {cid \in DOMAIN pruned : DOMAIN pruned[cid].sections # {}})]

\* ModelTextbook.prune: prune each chapter, then pop it if it has no sections.
TextbookPrune(textbook, rc) ==
    LET pruned == [cid \in DOMAIN textbook.chapters |->
                      ChapterPrune(textbook.chapters[cid], rc)]
    IN  [textbook EXCEPT !.chapters =
            Restrict(pruned, {cid \in DOMAIN pruned : DOMAIN pruned[cid].sections # {}})]

\* ModelCourse.prune: prune each textbook, then pop it if it has no chapters.
CoursePrune(course, rc) ==
    LET pruned == [tid \in DOMAIN course.textbooks |->
                      TextbookPrune(course.textbooks[tid], rc)]
    IN  [course EXCEPT !.textbooks =
            Restrict(pruned, {tid \in DOMAIN pruned : DOMAIN pruned[tid].chapters # {}})]

\* Dicts over keys 1..k for k up to n, and over every subset of a key set.
DictsUpTo(n, values) == UNION {[1..k -> values] : k \in 0..n}
DictsOver(keys, values) == UNION {[d -> values] : d \in SUBSET keys}

\* The chapter id of the trees pruned: each textbook has at most this chapter.
PruneChapterIds == {1}

\* The trees pruned: every tree over the ids, empty containers included.
PrunePages ==
    {Keyed(p) : p \in DictsUpTo(MaxPages,
                        {CoursewarePage(0, 1, 5, done, <<>>) : done \in BOOLEAN})}

PruneSections ==
    {[sid \in DOMAIN d |-> CoursewareSection(sid, d[sid])] :
        d \in DictsOver(SectionIds, PrunePages)}

PruneChapters ==
    {[cid \in DOMAIN d |-> CoursewareChapter(cid, d[cid])] :
        d \in DictsOver(PruneChapterIds, PruneSections)}

PruneTextbooks ==
    {[tid \in DOMAIN d |-> ModelTextbook(tid, d[tid])] :
        d \in DictsOver(TextbookIds, PruneChapters)}

InitPrune ==
    /\ HttpIdle
    /\ EnrichIdle
    /\ ManageIdle
    /\ ReportIdle
    /\ RunIdle
    /\ tree_pc = "idle"
    /\ course_config \in {ModelCourse(t) : t \in PruneTextbooks}
    /\ course_before = NoCourse
    /\ course_once = NoCourse
    /\ textbook_id = 0
    /\ study_record_info = NoRecord
    /\ parse_status = None
    /\ remove_complete = FALSE
    /\ textbook_info = None
    /\ chapter_info = None
    /\ parsed_study_record_infos = EmptyDict

\* course.prune(remove_complete)
Prune(rc) ==
    /\ tree_pc = "idle"
    /\ tree_pc' = "once"
    /\ remove_complete' = rc
    /\ course_before' = course_config
    /\ course_config' = CoursePrune(course_config, rc)
    /\ UNCHANGED <<course_once, textbook_id, study_record_info, parse_status,
                   textbook_info, chapter_info,
                   parsed_study_record_infos>>
    /\ UNCHANGED <<httpVars, repVars, runVars, enrVars, mgrVars>>

\* course.prune(remove_complete) once more, with the same remove_complete
PruneAgain ==
    /\ tree_pc = "once"
    /\ tree_pc' = "twice"
    /\ course_once' = course_config
    /\ course_config' = CoursePrune(course_config, remove_complete)
    /\ UNCHANGED <<course_before, textbook_id, study_record_info, parse_status,
                   remove_complete, textbook_info, chapter_info,
                   parsed_study_record_infos>>
    /\ UNCHANGED <<httpVars, repVars, runVars, enrVars, mgrVars>>

NextPrune ==
    \/ \E rc \in BOOLEAN : Prune(rc)
    \/ PruneAgain

SpecPrune == InitPrune /\ [][NextPrune]_vars

\* C4: pruning twice with the same remove_complete gives the tree that
\* pruning once gives.
C4_PruneIdempotent ==
    tree_pc = "twice" => course_config = course_once

\* A second prune ran on a tree from which the first one removed a page, a
\* section and a textbook.
C4_PrunedTwice ==
    /\ tree_pc = "twice"
    /\ remove_complete
    /\ course_once # course_before
    /\ DOMAIN course_once.textbooks # {}
    /\ DOMAIN course_once.textbooks # DOMAIN course_before.textbooks
    /\ \E path \in PagePaths(course_before) :
          /\ PageAt(course_before, path).is_complete
          /\ path[1] \in DOMAIN course_once.textbooks

\* Paths of the sections, chapters and textbooks of a tree.
SectionPaths(course) ==
    {<<t, c, x>> \in TextbookIds \X ChapterIds \X SectionIds :
        HasSection(course, t, c, x)}

ChapterPaths(course) ==
    {<<t, c>> \in TextbookIds \X ChapterIds :
        /\ t \in DOMAIN course.textbooks
        /\ c \in DOMAIN course.textbooks[t].chapters}

\* C5: after prune(remove_complete) the course has no section without pages,
\* no chapter without sections and no textbook without chapters; with
\* remove_complete no complete page remains; every incomplete page is kept
\* with its ancestors, and without remove_complete every page is kept; no
\* page appears or changes.
C5_PruneResult ==
    tree_pc = "once"
    => /\ \A sp \in SectionPaths(course_config) :
             DOMAIN course_config.textbooks[sp[1]].chapters[sp[2]]
                                 .sections[sp[3]].pages # {}
       /\ \A cp \in ChapterPaths(course_config) :
             DOMAIN course_config.textbooks[cp[1]].chapters[cp[2]].sections # {}
       /\ \A t \in DOMAIN course_config.textbooks :
             DOMAIN course_config.textbooks[t].chapters # {}
       /\ PagePaths(course_config) =
             {path \in PagePaths(course_before) :
                 ~(remove_complete /\ PageAt(course_before, path).is_complete)}
       /\ \A path \in PagePaths(course_config) :
             PageAt(course_config, path) = PageAt(course_before, path)

\* prune(true) on a tree whose pages are all complete, among them the only
\* page of a section, leaves the course with an empty textbook map.
C5_Cascade ==
    /\ tree_pc = "once"
    /\ remove_complete
    /\ PagePaths(course_before) # {}
    /\ course_config.textbooks = EmptyDict
    /\ \E sp \in SectionPaths(course_before) :
          Cardinality(DOMAIN course_before.textbooks[sp[1]].chapters[sp[2]]
                                          .sections[sp[3]].pages) = 1

(***************************************************************************)
(* DataManager.build_sync_study_record_request                             *)
(* Floats (random.uniform, time.time(), the video fields current and       *)
(* recordTime) are fixed-point numbers counting 1/Scale of a second.       *)
(***************************************************************************)
\* Steps per second of the fixed-point floats.
Scale == 2

\* Most pages of a section, and most elements of a page, in the reports tried.
MaxReportPages == 2
MaxElements == 2

\* `min(..., 3600)`
StudyTimeCap == 3600

ElementDocumen == [type |-> "ElementDocumen", document_content |-> "document"]

ElementContent == [type |-> "ElementContent", content_content |-> "content"]

ElementVideo(vid, length) ==
    [type |-> "ElementVideo", video_id |-> vid, video_length |-> length]

Question(qid, score, answers) ==
    [question_id |-> qid, question_score |-> score,
     question_content |-> "question", question_answer_list |-> answers]

ElementQuestion(questions) == [type |-> "ElementQuestion", questions |-> questions]

\* An unset optional value, and a set one.
Unset == <<>>
Some(x) == <<x>>

Min(a, b) == IF a <= b THEN a ELSE b

\* int() of a non-negative fixed-point float.
IntOf(x) == x \div Scale

RECURSIVE Sum(_, _)
Sum(seq, i) == IF i > Len(seq) THEN 0 ELSE seq[i] + Sum(seq, i + 1)

RECURSIVE Concat(_, _)
Concat(seqs, i) == IF i > Len(seqs) THEN <<>> ELSE seqs[i] \o Concat(seqs, i + 1)

\* The keys of a dict in the order the loops visit them (ascending here).
Keys(S) ==
    [i \in 1..Cardinality(S) |->
        CHOOSE k \in S : Cardinality({smaller \in S : smaller < k}) = i - 1]

\* The positions of the elements of a type, in list order.
PositionsOf(elements, type) ==
    Keys({i \in 1..Len(elements) : elements[i].type = type})

\* random.randint(a, b) for a <= b, as the k-th draw of the source (for
\* a > b randint raises: see PageRaises).
RandInt(a, b, draw, k) == a + ((draw.int + k) % (IF a <= b THEN b - a + 1 ELSE 1))

\* The values random.uniform(2, 8) is tried with: both ends, one step inside
\* each end, and the middle.
UniformDraws == <<2 * Scale, 2 * Scale + 1, 5 * Scale, 8 * Scale - 1, 8 * Scale>>

\* random.uniform(2, 8), as the k-th draw of the source.
Uniform(draw, k) == UniformDraws[((draw.uniform + k) % Len(UniformDraws)) + 1]

\* The document bucket serves a page holding an ElementDocumen, the content
\* bucket every other page.
Bucket(page, cfg) ==
    IF \E i \in 1..Len(page.elements) : page.elements[i].type = "ElementDocumen"
       THEN cfg.document
       ELSE cfg.content

\* The content_type 5 branch with the cap applied to the draw, not the product.
DocumentStudyTimeCapDraw(page, cfg, draw) ==
    LET b == Bucket(page, cfg)
    IN  Min(RandInt(b.min, b.max, draw, page.page_id), StudyTimeCap)
           * Len(page.elements)

\* The content_type 5 branch: min(randint(min, max) * element_num, 3600).
DocumentStudyTime(page, cfg, draw) ==
    LET b == Bucket(page, cfg)
    IN  Min(RandInt(b.min, b.max, draw, page.page_id) * Len(page.elements),
            StudyTimeCap)

\* The VideoDTO with the whole length as the watch time.
VideoDTOWatchedWhole(element, draw, i) ==
    LET video_start_time == draw.now
        video_watch_time == element.video_length * Scale
    IN  [videoid |-> element.video_id,
         current |-> video_watch_time,
         status |-> 1,
         recordTime |-> video_watch_time,
         time |-> element.video_length * Scale,
         startEndTimeList |->
            <<[startTime |-> IntOf(video_start_time),
               endTime |-> IntOf(video_start_time + video_watch_time)]>>]

\* The VideoDTO of the video element at position i.
VideoDTO(element, draw, i) ==
    LET video_start_time == draw.now
        video_watch_time == element.video_length * Scale - Uniform(draw, i)
    IN  [videoid |-> element.video_id,
         current |-> video_watch_time,
         status |-> 1,
         recordTime |-> video_watch_time,
         time |-> element.video_length * Scale,
         startEndTimeList |->
            <<[startTime |-> IntOf(video_start_time),
               endTime |-> IntOf(video_start_time + video_watch_time)]>>]

\* The content_type 6 branch: the video elements and their records.
VideoPositions(page) == PositionsOf(page.elements, "ElementVideo")

\* The study time of a video page taken from its last video alone.
VideoStudyTimeLastOnly(page) ==
    LET pos == VideoPositions(page)
    IN  IF pos = <<>> THEN 0 ELSE page.elements[pos[Len(pos)]].video_length

VideoStudyTime(page) ==
    LET pos == VideoPositions(page)
    IN  Sum([j \in 1..Len(pos) |-> page.elements[pos[j]].video_length], 1)

VideoDTOs(page, draw) ==
    LET pos == VideoPositions(page)
    IN  [j \in 1..Len(pos) |-> VideoDTO(page.elements[pos[j]], draw, pos[j])]

\* The content_type 7 branch: the questions of the question elements.
PageQuestions(page) ==
    LET pos == PositionsOf(page.elements, "ElementQuestion")
    IN  Concat([j \in 1..Len(pos) |-> page.elements[pos[j]].questions], 1)

QuestionStudyTime(cfg, draw, page) ==
    Min(RandInt(cfg.question.min, cfg.question.max, draw, page.page_id),
        StudyTimeCap)

QuestionDTOs(page) ==
    LET qs == PageQuestions(page)
    IN  [j \in 1..Len(qs) |->
            [questionid |-> qs[j].question_id,
             answerList |-> qs[j].question_answer_list,
             score |-> qs[j].question_score]]

\* The score of a question page fixed at 100, as for the other page types.
QuestionScoreFull(page) == 100

QuestionScore(page) ==
    LET qs == PageQuestions(page)
    IN  Sum([j \in 1..Len(qs) |-> qs[j].question_score], 1)

\* The entry keyed by the page id, and naming the page in every entry.
PageStudyRecordDTOByPageId(page, study_time, score, videos, questions, first) ==
    [pageid |-> page.page_id,
     complete |-> 1,
     studyTime |-> IF first THEN 0 ELSE study_time,
     score |-> score,
     answerTime |-> 1,
     submitTimes |-> 0,
     coursepageId |-> Some(page.page_id),
     questions |-> questions,
     videos |-> videos,
     speaks |-> <<>>]

PageStudyRecordDTO(page, study_time, score, videos, questions, first) ==
    [pageid |-> page.page_relation_id,
     complete |-> 1,
     studyTime |-> IF first THEN 0 ELSE study_time,
     score |-> score,
     answerTime |-> 1,
     submitTimes |-> 0,
     coursepageId |-> IF questions # <<>> THEN Some(page.page_id) ELSE Unset,
     questions |-> questions,
     videos |-> videos,
     speaks |-> <<>>]

\* The loop body with an empty entry for a page of unknown type.
PageEntriesUnknownEmpty(page, cfg, first, draw) ==
    IF first \/ page.page_content_type \notin {5, 6, 7}
       THEN <<PageStudyRecordDTO(page, 0, 0, <<>>, <<>>, first)>>
       ELSE CASE page.page_content_type = 5 ->
                    <<PageStudyRecordDTO(page, DocumentStudyTime(page, cfg, draw),
                                         100, <<>>, <<>>, first)>>
              [] page.page_content_type = 6 ->
                    <<PageStudyRecordDTO(page, VideoStudyTime(page), 100,
                                         VideoDTOs(page, draw), <<>>, first)>>
              [] page.page_content_type = 7 ->
                    <<PageStudyRecordDTO(page, QuestionStudyTime(cfg, draw, page),
                                         QuestionScore(page), <<>>,
                                         QuestionDTOs(page), first)>>

\* The loop body with the per-type simulation run in the first pass too.
PageEntriesAlwaysSimulated(page, cfg, first, draw) ==
    CASE page.page_content_type = 5 ->
            <<PageStudyRecordDTO(page, DocumentStudyTime(page, cfg, draw), 100,
                                 <<>>, <<>>, first)>>
      [] page.page_content_type = 6 ->
            <<PageStudyRecordDTO(page, VideoStudyTime(page), 100,
                                 VideoDTOs(page, draw), <<>>, first)>>
      [] page.page_content_type = 7 ->
            <<PageStudyRecordDTO(page, QuestionStudyTime(cfg, draw, page),
                                 QuestionScore(page), <<>>, QuestionDTOs(page),
                                 first)>>
      [] OTHER -> <<>>

\* The loop body for one page: the entries it appends (one, or none for a
\* page of unknown type in the second pass).
PageEntries(page, cfg, first, draw) ==
    IF first
       THEN <<PageStudyRecordDTO(page, 0, 0, <<>>, <<>>, first)>>
       ELSE CASE page.page_content_type = 5 ->
                    <<PageStudyRecordDTO(page, DocumentStudyTime(page, cfg, draw),
                                         100, <<>>, <<>>, first)>>
              [] page.page_content_type = 6 ->
                    <<PageStudyRecordDTO(page, VideoStudyTime(page), 100,
                                         VideoDTOs(page, draw), <<>>, first)>>
              [] page.page_content_type = 7 ->
                    <<PageStudyRecordDTO(page, QuestionStudyTime(cfg, draw, page),
                                         QuestionScore(page), <<>>,
                                         QuestionDTOs(page), first)>>
              [] OTHER -> <<>>

\* No page makes the builder raise.
PageNeverRaises(page, cfg, first) == FALSE

\* random.randint(a, b) raises ValueError when a > b; the `except Exception`
\* of the builder turns that into None.
PageRaises(page, cfg, first) ==
    /\ ~first
    /\ \/ page.page_content_type = 5 /\ Bucket(page, cfg).min > Bucket(page, cfg).max
       \/ page.page_content_type = 7 /\ cfg.question.min > cfg.question.max

\* build_sync_study_record_request as a function of its arguments and of
\* what the random source and the clock give.
BuildSyncStudyRecordRequest(start_time, section, user_name, cfg, first, draw) ==
    LET pages == section.pages
        keys == Keys(DOMAIN pages)
    IN  IF \E pid \in DOMAIN pages : PageRaises(pages[pid], cfg, first)
           THEN None
           ELSE [itemid |-> section.section_id,
                 autoSave |-> 1,
                 complete |-> 1,
                 studyStartTime |-> start_time,
                 userName |-> user_name,
                 score |-> 100,
                 pageStudyRecordDTOList |->
                    Concat([j \in 1..Len(keys) |->
                               PageEntries(pages[keys[j]], cfg, first, draw)], 1)]

\* The inputs tried.
ContentTypes == {5, 6, 7, 8}

ReportElements ==
    <<ElementDocumen, ElementContent, ElementVideo(1, 600), ElementVideo(2, 5),
      ElementQuestion(<<Question(1, 40, <<"A">>), Question(2, 60, <<"B", "C">>)>>),
      ElementVideo(3, 3700)>>

\* The element lists tried: up to MaxElements elements, kinds in the order of
\* ReportElements.
ElementLists ==
    {[i \in DOMAIN l |-> ReportElements[l[i]]] :
        l \in {m \in SeqUpTo(DOMAIN ReportElements, MaxElements) :
                  \A i \in 1..(Len(m) - 1) : m[i] <= m[i + 1]}}

\* A section of pages 1..k that all hold the same elements, each page with
\* its own content type; relation ids differ from page ids.
ReportSection(types, elements) ==
    CoursewareSection(1,
        [pid \in DOMAIN types |->
            CoursewarePage(pid, pid + 10, types[pid], FALSE, elements)])

ReportSections ==
    {ReportSection(types, elements) :
        types \in SeqUpTo(ContentTypes, MaxReportPages),
        elements \in ElementLists}

\* The (min, max) pairs tried: a small range, one whose product with two
\* elements reaches the cap, the largest a user can enter, and a range
\* a hand-edited configuration can hold with min above max.
TimePairs ==
    <<[min |-> 0, max |-> 1], [min |-> 1800, max |-> 1801],
      [min |-> 3600, max |-> 3600], [min |-> 2, max |-> 1]>>

TimePair(i) == TimePairs[((i - 1) % Len(TimePairs)) + 1]

StudyTimes ==
    {[document |-> TimePair(i), content |-> TimePair(i + 1),
      question |-> TimePair(i + 2)] : i \in 1..Len(TimePairs)}

Draws ==
    [int : {0, 1}, uniform : 0..(Len(UniformDraws) - 1),
     now : {1000 * Scale, 1000 * Scale + Scale - 1}]

InitReport ==
    /\ HttpIdle
    /\ EnrichIdle
    /\ ManageIdle
    /\ TreeIdle
    /\ RunIdle
    /\ rep_pc = "idle"
    /\ section_info \in ReportSections
    /\ study_time_config \in StudyTimes
    /\ is_first = TRUE
    /\ report = None

\* build_sync_study_record_request(..., is_first=True): nothing is drawn.
BuildFirst ==
    /\ rep_pc = "idle"
    /\ rep_pc' = "built"
    /\ is_first' = TRUE
    /\ report' = BuildSyncStudyRecordRequest(1000, section_info, "user",
                                             study_time_config, TRUE, NoDraw)
    /\ UNCHANGED <<section_info, study_time_config>>
    /\ UNCHANGED <<httpVars, treeVars, runVars, enrVars, mgrVars>>

\* build_sync_study_record_request(..., is_first=False)
BuildSecond(draw) ==
    /\ rep_pc = "idle"
    /\ rep_pc' = "built"
    /\ is_first' = FALSE
    /\ report' = BuildSyncStudyRecordRequest(1000, section_info, "user",
                                             study_time_config, FALSE, draw)
    /\ UNCHANGED <<section_info, study_time_config>>
    /\ UNCHANGED <<httpVars, treeVars, runVars, enrVars, mgrVars>>

NextReport ==
    \/ BuildFirst
    \/ \E draw \in Draws : BuildSecond(draw)

SpecReport == InitReport /\ [][NextReport]_vars

ReportList == report.pageStudyRecordDTOList

\* C6: a report built with is_first = true holds one entry per page, whatever
\* the page's content type, and every entry has studyTime 0, score 0, no video
\* records, no question records and coursepageId unset.
C6_FirstPassEmpty ==
    (rep_pc = "built" /\ is_first)
    => /\ report # None
       /\ Len(ReportList) = Cardinality(DOMAIN section_info.pages)
       /\ \A i \in 1..Len(ReportList) :
             /\ ReportList[i].studyTime = 0
             /\ ReportList[i].score = 0
             /\ ReportList[i].videos = <<>>
             /\ ReportList[i].questions = <<>>
             /\ ReportList[i].coursepageId = Unset

\* A first-pass report of a section with a video page that holds a video
\* and a question, and a page of unknown type, under a configuration whose
\* ranges would make the second pass fail.
C6_FirstPassBuilt ==
    /\ rep_pc = "built"
    /\ is_first
    /\ report # None
    /\ \E p, q \in DOMAIN section_info.pages :
          /\ section_info.pages[p].page_content_type = 6
          /\ PositionsOf(section_info.pages[p].elements, "ElementVideo") # <<>>
          /\ PositionsOf(section_info.pages[p].elements, "ElementQuestion") # <<>>
          /\ section_info.pages[q].page_content_type = 8
    /\ study_time_config.question.min > study_time_config.question.max

\* The entries of the report that carry a page's relation id.
EntriesFor(page) ==
    {i \in 1..Len(ReportList) : ReportList[i].pageid = page.page_relation_id}

HoldsDocument(page) ==
    \E i \in 1..Len(page.elements) : page.elements[i] = ElementDocumen

\* The bucket the claim names for a content_type-5 page.
ClaimedBucket(page) ==
    IF HoldsDocument(page) THEN study_time_config.document
                           ELSE study_time_config.content

ValidRange(b) == 0 <= b.min /\ b.min <= b.max /\ b.max <= 3600

\* C10 as stated: in a second-pass report a content_type-5 page with n
\* elements has studyTime in [minT * n, min(maxT * n, 3600)] and score 100.
C10_Original ==
    (rep_pc = "built" /\ ~is_first /\ report # None)
    => \A pid \in DOMAIN section_info.pages :
          LET page == section_info.pages[pid]
              n == Len(page.elements)
              b == ClaimedBucket(page)
          IN  (page.page_content_type = 5 /\ ValidRange(b))
              => /\ EntriesFor(page) # {}
                 /\ \A i \in EntriesFor(page) :
                       /\ b.min * n <= ReportList[i].studyTime
                       /\ ReportList[i].studyTime <= Min(b.max * n, 3600)
                       /\ ReportList[i].score = 100

\* C10 (amended): the lower end is capped too: studyTime lies in
\* [min(minT * n, 3600), min(maxT * n, 3600)], and the score is 100.
C10_DocumentStudyTime ==
    (rep_pc = "built" /\ ~is_first /\ report # None)
    => \A pid \in DOMAIN section_info.pages :
          LET page == section_info.pages[pid]
              n == Len(page.elements)
              b == ClaimedBucket(page)
          IN  (page.page_content_type = 5 /\ ValidRange(b))
              => /\ EntriesFor(page) # {}
                 /\ \A i \in EntriesFor(page) :
                       /\ Min(b.min * n, 3600) <= ReportList[i].studyTime
                       /\ ReportList[i].studyTime <= Min(b.max * n, 3600)
                       /\ ReportList[i].score = 100

\* A second-pass report with a document page of two elements whose product
\* was capped, under a configuration whose content bucket would not have
\* been capped.
C10_Capped ==
    /\ rep_pc = "built"
    /\ ~is_first
    /\ report # None
    /\ \E pid \in DOMAIN section_info.pages :
          LET page == section_info.pages[pid]
          IN  /\ page.page_content_type = 5
              /\ HoldsDocument(page)
              /\ Len(page.elements) = 2
              /\ study_time_config.document.min * 2 >= 3600
              /\ study_time_config.content.max * 2 < 3600
              /\ \E i \in EntriesFor(page) : ReportList[i].studyTime = 3600

(***************************************************************************)
(* CoursewareManager.__start_courseware and its courseware_handler, one    *)
(* action per await.  CourseAPI is outside the sources: its calls are      *)
(* taken to return (a timestamp or nothing, a status) and not to raise.    *)
(***************************************************************************)
\* Most textbooks of the course, and most sections of a textbook, in the
\* runs tried.
MaxRunTextbooks == 1
MaxRunSections == 2

\* `if retry >= 3` of the submission loop
SyncRetryLimit == 3

\* What initialize_section returns: nothing, or the start timestamp.
StartTimes == {0, 1000}

\* The pages of the sections of a run, by section position.
RunPages ==
    <<(1 :> CoursewarePage(1, 11, 6, FALSE, <<ElementVideo(1, 600), ElementVideo(2, 5)>>))
         @@ (2 :> CoursewarePage(2, 12, 5, FALSE, <<ElementDocumen>>)),
      (1 :> CoursewarePage(1, 11, 5, FALSE, <<ElementVideo(1, 600)>>))
         @@ (2 :> CoursewarePage(2, 12, 7, FALSE,
                     <<ElementQuestion(<<Question(1, 100, <<"A">>)>>)>>)),
      (1 :> CoursewarePage(1, 11, 6, FALSE, <<ElementContent, ElementVideo(1, 5)>>))
         @@ (2 :> CoursewarePage(2, 12, 6, TRUE, <<>>))>>

\* The section counts of the chapters of a textbook: one or two chapters,
\* MaxRunSections sections at most in all.
RunLayouts ==
    {l \in SeqUpTo(0..MaxRunSections, 2) : Len(l) > 0 /\ Sum(l, 1) <= MaxRunSections}

\* The sections of chapter c: ids 10c + 1 .. 10c + n.
RunChapter(c, n, before) ==
    CoursewareChapter(c,
        [sid \in {10 * c + j : j \in 1..n} |->
            CoursewareSection(sid,
                RunPages[((before + sid - 10 * c - 1) % Len(RunPages)) + 1])])

RunTextbook(tid, layout) ==
    ModelTextbook(tid,
        [c \in DOMAIN layout |->
            RunChapter(c, layout[c], Sum(SubSeq(layout, 1, c - 1), 1))])

RunCourses ==
    {IF n = 0 THEN EmptyDict
     ELSE (1 :> ModelCourse([tid \in 1..n |-> RunTextbook(tid, layout)])) :
        n \in 0..MaxRunTextbooks, layout \in RunLayouts}

\* The (course_id, textbook_id) pairs in the order the two outer loops visit.
RunUnits(crs) ==
    LET cids == Keys(DOMAIN crs)
    IN  Concat([i \in 1..Len(cids) |->
                   LET tids == Keys(DOMAIN crs[cids[i]].textbooks)
                   IN  [j \in 1..Len(tids) |-> <<cids[i], tids[j]>>]], 1)

UnitTextbook(crs, u) == crs[RunUnits(crs)[u][1]].textbooks[RunUnits(crs)[u][2]]

\* The (chapter_id, section_id) pairs of a textbook in the order the chapter
\* and section loops of courseware_handler visit them.
SectionSeq(textbook) ==
    LET cids == Keys(DOMAIN textbook.chapters)
    IN  Concat([i \in 1..Len(cids) |->
                   LET sids == Keys(DOMAIN textbook.chapters[cids[i]].sections)
                   IN  [j \in 1..Len(sids) |-> <<cids[i], sids[j]>>]], 1)

NumSections(crs, u) == Len(SectionSeq(UnitTextbook(crs, u)))

CurrentSection ==
    LET tb == UnitTextbook(courses, unit_idx)
        at == SectionSeq(tb)[sec_idx]
    IN  tb.chapters[at[1]].sections[at[2]]

\* The pages of a section whatever their content type.
EveryPage(section) == Keys(DOMAIN section.pages)

\* The pages of a section for which the second pass pings: content type 6.
VideoPages(section) ==
    Keys({pid \in DOMAIN section.pages : section.pages[pid].page_content_type = 6})

\* Where the loops stand when textbook u is entered.
EnterTextbook(crs, u) ==
    IF u > Len(RunUnits(crs))
       THEN [pc |-> "prune", unit |-> u, first |-> TRUE, sec |-> 0]
       ELSE IF NumSections(crs, u) = 0
               THEN [pc |-> "refresh", unit |-> u, first |-> TRUE, sec |-> 0]
               ELSE [pc |-> "init", unit |-> u, first |-> TRUE, sec |-> 1]

\* Where the loops stand after the handling of section i in a pass: the next
\* section, the refresh after the first pass, the next textbook after the
\* second.
AfterSection(crs, u, first, i) ==
    IF i < NumSections(crs, u)
       THEN [pc |-> "init", unit |-> u, first |-> first, sec |-> i + 1]
       ELSE IF first
               THEN [pc |-> "refresh", unit |-> u, first |-> TRUE, sec |-> 0]
               ELSE EnterTextbook(crs, u + 1)

\* The second pass left out.
AfterRefreshSkipped(crs, u) == EnterTextbook(crs, u + 1)

\* Where the loops stand after the refresh: the second pass.
AfterRefresh(crs, u) ==
    IF NumSections(crs, u) = 0
       THEN EnterTextbook(crs, u + 1)
       ELSE [pc |-> "init", unit |-> u, first |-> FALSE, sec |-> 1]

\* `if not study_start_time` never taken.
InitFailedIgnored(ts) == FALSE

\* `if not study_start_time`
InitFailed(ts) == ts = 0

\* `if retry >= 3` of the submission loop
RetriedTooOften(r) == r >= SyncRetryLimit

\* What is kept of the book of a textbook the loops have left.
Closed(b) ==
    [sections |-> b.sections, handled_first |-> b.handled_first,
     refresh_calls |-> b.refresh_calls, handled_second |-> b.handled_second,
     inits_first |-> b.inits_first, inits_second |-> b.inits_second]

\* Moves the loops to position pos; book1 is the book of the textbook left
\* or stayed in.
MoveTo(next_pos, next_book) ==
    \E pos \in {next_pos}, book1 \in {next_book} :
       /\ run_pc' = pos.pc
       /\ unit_idx' = pos.unit
       /\ handler_is_first' = pos.first
       /\ sec_idx' = pos.sec
       /\ IF pos.unit # unit_idx
             THEN /\ textbooks_done' = Append(textbooks_done, Closed(book1))
                  /\ book' = IF pos.pc = "prune" THEN book1
                             ELSE [NewBook EXCEPT !.sections =
                                      NumSections(courses, pos.unit)]
             ELSE /\ textbooks_done' = textbooks_done
                  /\ book' = book1

\* The book after the handling of the current section ended in this pass.
Handled(b) ==
    IF handler_is_first
       THEN [b EXCEPT !.handled_first = @ + 1]
       ELSE [b EXCEPT !.handled_second = @ + 1]

\* The book after initialize_section was called for the current section.
Attempted(b) ==
    IF handler_is_first
       THEN [b EXCEPT !.inits_first = @ + 1]
       ELSE [b EXCEPT !.inits_second = @ + 1]

\* What get_study_record_info gives for a section: a failure, no record
\* (not studied), or a record with every page of the section complete.
SectionResults == {"failed", "none", "complete"}

\* The results of one round of fetches, by the position of the section in
\* its textbook.
RoundResults == [1..MaxRunSections -> SectionResults]

\* The record of a section with every page complete.
CompleteRecord(chapter_id, section) ==
    LET keys == Keys(DOMAIN section.pages)
    IN  [node_id |-> chapter_id,
         item_id |-> section.section_id,
         pageStudyRecordDTOList |->
            [j \in 1..Len(keys) |->
                [pageid |-> section.pages[keys[j]].page_relation_id,
                 complete |-> 1]]]

\* The section loop of __prune_completed_courseware over the sections of a
\* textbook, from position i on: a failed fetch and a missing record are
\* skipped, a record is parsed into the course.  (The names bound over
\* one-element sets hold the value of a loop variable, computed once.)
RECURSIVE RefreshSections(_, _, _, _, _)
RefreshSections(course, tid, seq, results, i) ==
    IF i > Len(seq) THEN course
    ELSE CHOOSE refreshed \in
            {RefreshSections(next, tid, seq, results, i + 1) :
                next \in
                   {IF results[i] = "complete"
                       THEN ParseStudyRecordInfo(course, tid, record).course_config
                       ELSE course :
                    record \in
                       {CompleteRecord(seq[i][1], section) :
                        section \in {course.textbooks[tid].chapters[seq[i][1]]
                                        .sections[seq[i][2]]}}}} : TRUE

\* The course and textbook loops of __prune_completed_courseware, from unit
\* u on.
RECURSIVE RefreshUnits(_, _, _, _)
RefreshUnits(crs, units, results, u) ==
    IF u > Len(units) THEN crs
    ELSE CHOOSE refreshed \in
            {RefreshUnits(next, units, results, u + 1) :
                next \in
                   {[crs EXCEPT ![units[u][1]] =
                        RefreshSections(@, units[u][2], seq, results, 1)] :
                    seq \in {SectionSeq(crs[units[u][1]].textbooks[units[u][2]])}}} : TRUE

\* The courses pruned, those left without textbooks kept.
PruneCoursesKeepEmpty(crs, rc) == [cid \in DOMAIN crs |-> CoursePrune(crs[cid], rc)]

\* The last loop of __prune_completed_courseware: prune every course and
\* pop the courses left without textbooks.
PruneCourses(crs, rc) ==
    LET pruned == [cid \in DOMAIN crs |-> CoursePrune(crs[cid], rc)]
    IN  Restrict(pruned, {cid \in DOMAIN pruned : DOMAIN pruned[cid].textbooks # {}})

\* `if not self.user_config.courses` at the head of
\* __prune_completed_courseware: nothing is fetched and nothing pruned.
NothingToPrune(crs) == crs = EmptyDict

\* __prune_completed_courseware keeping the complete pages.
PruneCompletedCoursewareKeepComplete(crs, results) ==
    IF NothingToPrune(crs) THEN crs
    ELSE CHOOSE pruned \in
            {PruneCourses(refreshed, FALSE) :
                refreshed \in {RefreshUnits(crs, units, results, 1) :
                                 units \in {RunUnits(crs)}}} : TRUE

\* __prune_completed_courseware: the courses it leaves.
PruneCompletedCourseware(crs, results) ==
    IF NothingToPrune(crs) THEN crs
    ELSE CHOOSE pruned \in
            {PruneCourses(refreshed, TRUE) :
                refreshed \in {RefreshUnits(crs, units, results, 1) :
                                 units \in {RunUnits(crs)}}} : TRUE

\* The choices of __start_courseware_confirm that end it: the default mode
\* (clean up first), the mode that does not clean up, and going back.
ConfirmChoices == {"default", "all", "back"}

\* The configurations of a run: one whose ranges are all valid and one
\* whose question range has min above max.
RunStudyTimes ==
    {cfg \in StudyTimes : /\ cfg.document.min <= cfg.document.max
                          /\ cfg.content.min <= cfg.content.max}

InitRun ==
    /\ HttpIdle
    /\ EnrichIdle
    /\ ManageIdle
    /\ TreeIdle
    /\ rep_pc = "idle"
    /\ section_info = CoursewareSection(0, EmptyDict)
    /\ study_time_config \in RunStudyTimes
    /\ is_first = TRUE
    /\ report = None
    /\ run_pc = "start"
    /\ courses \in RunCourses
    /\ unit_idx = 0
    /\ handler_is_first = TRUE
    /\ sec_idx = 0
    /\ ping_idx = 0
    /\ study_start_time = 0
    /\ handler_retry = 0
    /\ sect = NewSect
    /\ book = NewBook
    /\ textbooks_done = <<>>
    /\ finish = NotFinished

\* __start_courseware up to the loops: no courses, a declined confirmation
\* or no user info end the run at once; the default mode of the confirmation
\* cleans the courses up before the loops.
StartCourseware(choice, results, has_user_info) ==
    /\ run_pc = "start"
    /\ IF courses = EmptyDict \/ choice = "back"
          THEN /\ run_pc' = "done"
               /\ finish' = [finish EXCEPT !.outcome = "returned"]
               /\ UNCHANGED <<courses, unit_idx, handler_is_first, sec_idx, book,
                              textbooks_done>>
          ELSE \E pruned \in {IF choice = "default"
                                  THEN PruneCompletedCourseware(courses, results)
                                  ELSE courses} :
               /\ courses' = pruned
               /\ IF ~has_user_info
                     THEN /\ run_pc' = "done"
                          /\ finish' = [finish EXCEPT !.outcome = "returned"]
                          /\ UNCHANGED <<unit_idx, handler_is_first, sec_idx, book,
                                         textbooks_done>>
                     ELSE \E pos \in {EnterTextbook(pruned, 1)} :
                              /\ run_pc' = pos.pc
                              /\ unit_idx' = pos.unit
                              /\ handler_is_first' = pos.first
                              /\ sec_idx' = pos.sec
                              /\ book' = IF pos.pc = "prune" THEN book
                                         ELSE [NewBook EXCEPT !.sections =
                                                  NumSections(pruned, 1)]
                              /\ textbooks_done' = textbooks_done
                              /\ finish' = finish
    /\ UNCHANGED <<ping_idx, study_start_time, handler_retry, sect>>
    /\ UNCHANGED <<httpVars, treeVars, repVars, enrVars, mgrVars>>

\* `await self.course_api.initialize_section(...)` and what follows up to
\* the next await: a failed initialisation skips the section.
InitializeSection(ts) ==
    /\ run_pc = "init"
    /\ study_start_time' = ts
    /\ handler_retry' = 0
    /\ LET entered == [NewSect EXCEPT !.unit = unit_idx,
                                      !.section = sec_idx,
                                      !.first = handler_is_first]
       IN  IF InitFailed(ts)
              THEN /\ sect' = [entered EXCEPT !.init = "failed"]
                   /\ ping_idx' = 0
                   /\ MoveTo(AfterSection(courses, unit_idx, handler_is_first, sec_idx),
                             Handled(Attempted(IF handler_is_first
                                        THEN [book EXCEPT !.first_init_failed =
                                                 @ \cup {sec_idx}]
                                        ELSE book)))
              ELSE /\ sect' = [entered EXCEPT !.init = "ok"]
                   /\ IF ~handler_is_first /\ VideoPages(CurrentSection) # <<>>
                         THEN run_pc' = "ping" /\ ping_idx' = 1
                         ELSE run_pc' = "build" /\ ping_idx' = 0
                   /\ book' = Attempted(book)
                   /\ UNCHANGED <<unit_idx, handler_is_first, sec_idx, textbooks_done>>
    /\ UNCHANGED courses
    /\ UNCHANGED <<httpVars, treeVars, repVars, finish, enrVars, mgrVars>>

\* The pings of one video page: `await asyncio.gather(...)` of one
\* watch_video_behavior per video element, then the statuses logged and
\* the 0.3 s sleeps.
WatchVideoBehavior(all_accepted) ==
    /\ run_pc = "ping"
    /\ \E section \in {CurrentSection} :
       \E pages \in {VideoPages(section)} :
       \E page \in {section.pages[pages[ping_idx]]} :
       \E n \in {Len(VideoPositions(page))} :
           /\ sect' = [sect EXCEPT !.pings = @ + n,
                                   !.ping_rejected = @ \/ (n > 0 /\ ~all_accepted)]
           /\ IF ping_idx < Len(pages)
                 THEN run_pc' = "ping" /\ ping_idx' = ping_idx + 1
                 ELSE run_pc' = "build" /\ ping_idx' = 0
    /\ UNCHANGED <<courses, unit_idx, handler_is_first, sec_idx, study_start_time,
                   handler_retry, book, textbooks_done>>
    /\ UNCHANGED <<httpVars, treeVars, repVars, finish, enrVars, mgrVars>>

\* The submission loop left with the cooldown in either pass.
LeaveLoopCooldownAlways(sect1) ==
    /\ sect' = sect1
    /\ run_pc' = "cooldown"
    /\ UNCHANGED <<unit_idx, handler_is_first, sec_idx, book, textbooks_done>>

\* The submission loop left: the cooldown in the second pass, the next
\* section at once in the first.
LeaveLoop(sect1) ==
    /\ sect' = sect1
    /\ IF handler_is_first
          THEN MoveTo(AfterSection(courses, unit_idx, handler_is_first, sec_idx),
                      Handled(book))
          ELSE /\ run_pc' = "cooldown"
               /\ UNCHANGED <<unit_idx, handler_is_first, sec_idx, book,
                              textbooks_done>>

\* The head of the submission loop: build the request; leave the loop when
\* there is none, else start sync_study_record.
SendStudyRecord(draw) ==
    /\ run_pc = "build"
    /\ \E section \in {CurrentSection} :
       \E request \in {BuildSyncStudyRecordRequest(study_start_time, section, "user",
                          study_time_config, handler_is_first, draw)} :
           IF request = None
              THEN LeaveLoop([sect EXCEPT !.outcome = "not built"])
              ELSE /\ sect' = [sect EXCEPT !.sync_calls = @ + 1]
                   /\ run_pc' = "sync"
                   /\ UNCHANGED <<unit_idx, handler_is_first, sec_idx, book,
                                  textbooks_done>>
    /\ UNCHANGED <<courses, ping_idx, study_start_time, handler_retry>>
    /\ UNCHANGED <<httpVars, treeVars, repVars, finish, enrVars, mgrVars>>

\* sync_study_record returned: give up after too many retries, retry after
\* a rejection, leave the loop after an accepted submission.
SyncStudyRecordReturns(sync_status) ==
    /\ run_pc = "sync"
    /\ LET sect1 == [sect EXCEPT !.accepted = @ \/ sync_status]
       IN  IF RetriedTooOften(handler_retry)
              THEN /\ LeaveLoop([sect1 EXCEPT !.outcome = "gave up"])
                   /\ handler_retry' = handler_retry
              ELSE IF ~sync_status
                      THEN /\ sect' = sect1
                           /\ handler_retry' = handler_retry + 1
                           /\ run_pc' = "sleep"
                           /\ UNCHANGED <<unit_idx, handler_is_first, sec_idx, book,
                                          textbooks_done>>
                      ELSE /\ LeaveLoop([sect1 EXCEPT !.outcome = "success"])
                           /\ handler_retry' = handler_retry
    /\ UNCHANGED <<courses, ping_idx, study_start_time>>
    /\ UNCHANGED <<httpVars, treeVars, repVars, finish, enrVars, mgrVars>>

\* `await asyncio.sleep(1)` at the foot of the submission loop
RetrySleep ==
    /\ run_pc = "sleep"
    /\ run_pc' = "build"
    /\ UNCHANGED <<courses, unit_idx, handler_is_first, sec_idx, ping_idx,
                   study_start_time, handler_retry, sect, book, textbooks_done>>
    /\ UNCHANGED <<httpVars, treeVars, repVars, finish, enrVars, mgrVars>>

\* `await asyncio.sleep(self.config.sleep_time)` after a second-pass section
Cooldown ==
    /\ run_pc = "cooldown"
    /\ MoveTo(AfterSection(courses, unit_idx, handler_is_first, sec_idx), Handled(book))
    /\ UNCHANGED <<courses, ping_idx, study_start_time, handler_retry, sect>>
    /\ UNCHANGED <<httpVars, treeVars, repVars, finish, enrVars, mgrVars>>

\* `await self.course_api.textbook_information(...)` between the passes; its
\* status is only logged.
TextbookInformation(refresh_status) ==
    /\ run_pc = "refresh"
    /\ MoveTo(AfterRefresh(courses, unit_idx),
              [book EXCEPT !.refresh_calls = @ + 1])
    /\ UNCHANGED <<courses, ping_idx, study_start_time, handler_retry, sect>>
    /\ UNCHANGED <<httpVars, treeVars, repVars, finish, enrVars, mgrVars>>

\* The end of __start_courseware: the final clean-up, the warning when
\* courses are left, and the normal end.
FinishCourseware(results) ==
    /\ run_pc = "prune"
    /\ run_pc' = "done"
    /\ courses' = PruneCompletedCourseware(courses, results)
    /\ finish' = [outcome |-> "finished",
                  refreshes |-> IF NothingToPrune(courses) THEN 0 ELSE 1,
                  prunes |-> IF NothingToPrune(courses) THEN 0 ELSE 1,
                  warned |-> courses' # EmptyDict]
    /\ UNCHANGED <<unit_idx, handler_is_first, sec_idx, ping_idx, study_start_time,
                   handler_retry, sect, book, textbooks_done>>
    /\ UNCHANGED <<httpVars, treeVars, repVars, enrVars, mgrVars>>

\* The draws the reports of a run are built with: the request built is not
\* kept, so one draw of each end of the integer range is tried.
RunDraws == {draw \in Draws : draw.uniform = 0 /\ draw.now = 1000 * Scale}

NextRun ==
    \/ \E choice \in ConfirmChoices, results \in RoundResults, has_user_info \in BOOLEAN :
          StartCourseware(choice, results, has_user_info)
    \/ \E ts \in StartTimes : InitializeSection(ts)
    \/ \E all_accepted \in BOOLEAN : WatchVideoBehavior(all_accepted)
    \/ \E draw \in RunDraws : SendStudyRecord(draw)
    \/ \E sync_status \in BOOLEAN : SyncStudyRecordReturns(sync_status)
    \/ RetrySleep
    \/ Cooldown
    \/ \E refresh_status \in BOOLEAN : TextbookInformation(refresh_status)
    \/ \E results \in RoundResults : FinishCourseware(results)

SpecRun == InitRun /\ [][NextRun]_vars

\* The run when every remote call and every sleep returns: a step that can
\* be taken is taken.
SpecRunReturns == SpecRun /\ WF_vars(NextRun)

(***************************************************************************)
(* Claims about the run                                                    *)
(***************************************************************************)
InSection == run_pc \in {"ping", "build", "sync", "sleep", "cooldown"}

\* C7 as stated: sync_study_record is issued 3 times at most for a section
\* in a pass, no attempt follows an accepted one, and the section is left
\* for the next one once the attempts are used up.
C7_Original ==
    /\ sect.sync_calls <= 3
    /\ run_pc \in {"build", "sync", "sleep"} => ~sect.accepted
    /\ sect.outcome = "gave up" => run_pc \notin {"build", "sync", "sleep"}

\* C8: in every textbook the first pass handles all the sections, then
\* textbook_information is called exactly once, then the second pass handles
\* all the sections; a second-pass report of a section is sent only after
\* the first pass handled it, and a report only after the initialisation.
C8_PassOrder ==
    /\ run_pc = "init" \/ InSection =>
          IF handler_is_first
             THEN /\ book.handled_first = sec_idx - 1
                  /\ book.refresh_calls = 0
                  /\ book.handled_second = 0
             ELSE /\ book.handled_first = NumSections(courses, unit_idx)
                  /\ book.refresh_calls = 1
                  /\ book.handled_second = sec_idx - 1
    /\ run_pc = "refresh" =>
          /\ book.handled_first = NumSections(courses, unit_idx)
          /\ book.refresh_calls = 0
          /\ book.handled_second = 0
    /\ InSection => /\ sect.unit = unit_idx
                    /\ sect.section = sec_idx
                    /\ sect.first = handler_is_first
                    /\ sect.init = "ok"
    /\ run_pc \in {"init", "refresh", "prune"} => Len(textbooks_done) = unit_idx - 1
    /\ \A u \in DOMAIN textbooks_done :
          /\ run_pc # "done" => textbooks_done[u].sections = NumSections(courses, u)
          /\ textbooks_done[u].handled_first = textbooks_done[u].sections
          /\ textbooks_done[u].refresh_calls = 1
          /\ textbooks_done[u].handled_second = textbooks_done[u].sections

\* C8 happens: the second-pass report of the last of several sections is
\* under way.
C8_SecondPassReport ==
    /\ run_pc = "sync"
    /\ ~handler_is_first
    /\ sec_idx = NumSections(courses, unit_idx)
    /\ sec_idx > 1

\* C9 as stated: a section whose initialisation failed gets no ping and no
\* report in either pass.
C9_Original ==
    ~ /\ sect.unit = unit_idx
      /\ sect.section \in book.first_init_failed
      /\ ~sect.first
      /\ sect.pings + sect.sync_calls > 0

\* C9: in the pass in which initialize_section returned nothing for a
\* section, no ping is sent and no report is submitted for it, and the next
\* section of the pass is initialised next.
C9_SkippedInPass ==
    study_start_time = 0 /\ sect.section # 0 =>
        /\ sect.pings = 0
        /\ sect.sync_calls = 0
        /\ ~InSection
        /\ sect.unit = unit_idx /\ sect.section < NumSections(courses, unit_idx) =>
              /\ run_pc = "init"
              /\ sec_idx = sect.section + 1
              /\ handler_is_first = sect.first

\* C9 happens: the first section of a textbook failed to initialise in the
\* first pass and the report of its second section is sent in that pass.
C9_SiblingAfterSkip ==
    /\ run_pc = "sync"
    /\ handler_is_first
    /\ 1 \in book.first_init_failed
    /\ sec_idx = 2

(***************************************************************************)
(* Claims about the second-pass report                                     *)
(***************************************************************************)
SecondPassBuilt == rep_pc = "built" /\ ~is_first /\ report # None

\* round() of a fixed-point float: to the nearest integer, a half to the
\* even one.
Round(x) ==
    LET q == x \div Scale
        r == x % Scale
    IN  IF 2 * r < Scale THEN q
        ELSE IF 2 * r > Scale THEN q + 1
        ELSE IF q % 2 = 0 THEN q ELSE q + 1

\* The (entry, record, element) triples of the video records of a report:
\* the j-th record of the entry of a content_type-6 page with the j-th video
\* element of the page.
VideoRecords ==
    {<<t[2], t[3],
       section_info.pages[t[1]].elements[VideoPositions(section_info.pages[t[1]])[t[3]]]>> :
        t \in {u \in (DOMAIN section_info.pages) \X (1..Len(ReportList))
                        \X (1..(MaxElements + 1)) :
                  /\ section_info.pages[u[1]].page_content_type = 6
                  /\ u[2] \in EntriesFor(section_info.pages[u[1]])
                  /\ u[3] \in DOMAIN ReportList[u[2]].videos
                  /\ u[3] <= Len(VideoPositions(section_info.pages[u[1]]))}}

VideoRecord(t) == ReportList[t[1]].videos[t[2]]

Elapsed(v) == v.startEndTimeList[1].endTime - v.startEndTimeList[1].startTime

\* C11 as stated: the watch time of a video of length L is in [L-8, L-2], is
\* what current and recordTime report, and endTime - startTime is
\* round(watchTime).
C11_Original ==
    SecondPassBuilt =>
       \A t \in VideoRecords :
          LET v == VideoRecord(t)
              L == t[3].video_length * Scale
          IN  /\ L - 8 * Scale <= v.current /\ v.current <= L - 2 * Scale
              /\ v.recordTime = v.current
              /\ Elapsed(v) = Round(v.current)

\* C11 (amended): the watch time is in [L-8, L-2] and is what current and
\* recordTime report; endTime - startTime is the difference of the two
\* truncated timestamps, floor(watchTime) or one more.
C11_WatchTime ==
    SecondPassBuilt =>
       \A t \in VideoRecords :
          LET v == VideoRecord(t)
              L == t[3].video_length * Scale
          IN  /\ L - 8 * Scale <= v.current /\ v.current <= L - 2 * Scale
              /\ v.recordTime = v.current
              /\ Len(v.startEndTimeList) = 1
              /\ Elapsed(v) \in {IntOf(v.current), IntOf(v.current) + 1}

\* C11 happens: a video of length 600 is reported with a watch time that is
\* not a whole number of seconds, started at a whole second.
C11_FractionalWatch ==
    /\ SecondPassBuilt
    /\ \E t \in VideoRecords :
          /\ t[3].video_length = 600
          /\ VideoRecord(t).current % Scale # 0
          /\ Elapsed(VideoRecord(t)) = IntOf(VideoRecord(t).current)

\* The video elements of a page, in list order.
VideosOf(page) ==
    LET pos == PositionsOf(page.elements, "ElementVideo")
    IN  [j \in 1..Len(pos) |-> page.elements[pos[j]]]

\* C12: in a second-pass report a content_type-6 page has one entry, with
\* score 100, studyTime the sum of the lengths of its video elements, and
\* one video record per video element, in order, with that element's id,
\* time = its length and current = recordTime.
C12_VideoPage ==
    SecondPassBuilt =>
       \A pid \in DOMAIN section_info.pages :
          LET page == section_info.pages[pid]
              videos == VideosOf(page)
          IN  page.page_content_type = 6 =>
                 /\ Cardinality(EntriesFor(page)) = 1
                 /\ \A i \in EntriesFor(page) :
                       /\ ReportList[i].score = 100
                       /\ ReportList[i].studyTime =
                             Sum([j \in 1..Len(videos) |-> videos[j].video_length], 1)
                       /\ Len(ReportList[i].videos) = Len(videos)
                       /\ \A j \in 1..Len(videos) :
                             /\ ReportList[i].videos[j].videoid = videos[j].video_id
                             /\ ReportList[i].videos[j].time = videos[j].video_length * Scale
                             /\ ReportList[i].videos[j].current =
                                   ReportList[i].videos[j].recordTime
                       /\ ReportList[i].questions = <<>>

\* C12 happens: a video page with the videos of lengths 600 and 5 is
\* reported with studyTime 605 and the two records, the first with time 600
\* and current in [592, 598].
C12_VideoPagesReported ==
    /\ SecondPassBuilt
    /\ \E i \in 1..Len(ReportList) :
          /\ ReportList[i].studyTime = 605
          /\ ReportList[i].score = 100
          /\ Len(ReportList[i].videos) = 2
          /\ ReportList[i].videos[1].time = 600 * Scale
          /\ ReportList[i].videos[1].current >= 592 * Scale
          /\ ReportList[i].videos[1].current <= 598 * Scale
          /\ ReportList[i].videos[2].time = 5 * Scale

\* The questions of the question elements of a page, in list order.
QuestionsOf(page) ==
    LET pos == PositionsOf(page.elements, "ElementQuestion")
    IN  Concat([j \in 1..Len(pos) |-> page.elements[pos[j]].questions], 1)

\* C13: in a second-pass report a content_type-7 page has one entry; its
\* studyTime lies in [min, min(max, 3600)] of the question bucket (a bucket
\* the configuration editor accepts), its score is the sum of the scores of
\* the questions of its question elements, and it holds one answer record
\* per question, in order, with that question's id, score and answer list.
C13_QuestionPage ==
    SecondPassBuilt =>
       \A pid \in DOMAIN section_info.pages :
          LET page == section_info.pages[pid]
              qs == QuestionsOf(page)
              b == study_time_config.question
          IN  page.page_content_type = 7 =>
                 /\ Cardinality(EntriesFor(page)) = 1
                 /\ \A i \in EntriesFor(page) :
                       /\ ValidRange(b) =>
                             /\ b.min <= ReportList[i].studyTime
                             /\ ReportList[i].studyTime <= Min(b.max, 3600)
                       /\ ReportList[i].score =
                             Sum([j \in 1..Len(qs) |-> qs[j].question_score], 1)
                       /\ Len(ReportList[i].questions) = Len(qs)
                       /\ \A j \in 1..Len(qs) :
                             /\ ReportList[i].questions[j].questionid = qs[j].question_id
                             /\ ReportList[i].questions[j].score = qs[j].question_score
                             /\ ReportList[i].questions[j].answerList =
                                   qs[j].question_answer_list
                       /\ ReportList[i].videos = <<>>

\* C13 happens: a question page with two question elements of two questions
\* each is reported with score 200 and four answer records, under a question
\* bucket whose two ends differ.
C13_QuestionPageReported ==
    /\ SecondPassBuilt
    /\ study_time_config.question.min < study_time_config.question.max
    /\ \E i \in 1..Len(ReportList) :
          /\ ReportList[i].score = 200
          /\ Len(ReportList[i].questions) = 4
          /\ ReportList[i].questions[2].answerList = <<"B", "C">>
          /\ ReportList[i].studyTime = study_time_config.question.max

KnownType(page) == page.page_content_type \in {5, 6, 7}

\* The range randint is called with for a page, if it is called.
DrawnRange(page) ==
    IF page.page_content_type = 5 THEN ClaimedBucket(page)
    ELSE study_time_config.question

\* C14: in a second-pass report a page whose content_type is not 5, 6 or 7
\* has no entry and every page whose content_type is 5, 6 or 7 has exactly
\* one; a page of unknown type does not make the build fail (the build fails
\* only on a page of type 5 or 7 whose range has min above max).
C14_UnknownSkipped ==
    (rep_pc = "built" /\ ~is_first) =>
       /\ report = None =>
             \E pid \in DOMAIN section_info.pages :
                /\ section_info.pages[pid].page_content_type \in {5, 7}
                /\ DrawnRange(section_info.pages[pid]).min >
                      DrawnRange(section_info.pages[pid]).max
       /\ report # None =>
             /\ \A pid \in DOMAIN section_info.pages :
                   Cardinality(EntriesFor(section_info.pages[pid])) =
                      IF KnownType(section_info.pages[pid]) THEN 1 ELSE 0
             /\ Len(ReportList) =
                   Cardinality({pid \in DOMAIN section_info.pages :
                                   KnownType(section_info.pages[pid])})

\* C14 happens: a section with a page of unknown type ahead of a page of
\* known type is reported with the one entry of the known page.
C14_UnknownBeforeKnown ==
    /\ SecondPassBuilt
    /\ Cardinality(DOMAIN section_info.pages) = 2
    /\ ~KnownType(section_info.pages[1])
    /\ KnownType(section_info.pages[2])
    /\ Len(ReportList) = 1
    /\ ReportList[1].pageid = section_info.pages[2].page_relation_id

\* C15: every entry of every report carries the page_relation_id of a page
\* of the section as its pageid, and its coursepageId is that page's page_id
\* when the entry holds a question record and unset when it holds none.
C15_PageIdentity ==
    (rep_pc = "built" /\ report # None) =>
       \A i \in 1..Len(ReportList) :
          \E pid \in DOMAIN section_info.pages :
             LET page == section_info.pages[pid]
             IN  /\ ReportList[i].pageid = page.page_relation_id
                 /\ ReportList[i].pageid # page.page_id
                 /\ \A j \in 1..Len(ReportList) :
                       ReportList[j].pageid = ReportList[i].pageid => j = i
                 /\ IF Len(ReportList[i].questions) >= 1
                       THEN ReportList[i].coursepageId = Some(page.page_id)
                       ELSE ReportList[i].coursepageId = Unset

\* C15 happens: a report holds an entry with question records and its page
\* id, and an entry of a page with the same elements and none.
C15_WithAndWithoutQuestions ==
    /\ SecondPassBuilt
    /\ Len(ReportList) = 2
    /\ ReportList[1].questions # <<>>
    /\ ReportList[1].coursepageId = Some(section_info.pages[1].page_id)
    /\ ReportList[2].questions = <<>>
    /\ ReportList[2].coursepageId = Unset

\* The element variants a content type has no use for: anything but a
\* document or a content on a page of type 5, anything but a video on a page
\* of type 6, anything but a question on a page of type 7.
Forbidden(page) ==
    \E i \in 1..Len(page.elements) :
       \/ /\ page.page_content_type = 5
          /\ page.elements[i].type \notin {"ElementDocumen", "ElementContent"}
       \/ /\ page.page_content_type = 6
          /\ page.elements[i].type # "ElementVideo"
       \/ /\ page.page_content_type = 7
          /\ page.elements[i].type # "ElementQuestion"

\* C16 as stated: no report is built when a page of the section holds an
\* element variant its content type forbids.
C16_Original ==
    (rep_pc = "built" /\ ~is_first
        /\ \E pid \in DOMAIN section_info.pages : Forbidden(section_info.pages[pid]))
    => report = None

\* C16 (amended): a second-pass build gives no report exactly when a page of
\* type 5 or 7 is built with a range whose min is above its max, and a
\* first-pass build always gives one; an element variant the content type
\* has no use for does not fail the build.
C16_BuildFails ==
    rep_pc = "built" =>
       (report = None <=>
           /\ ~is_first
           /\ \E pid \in DOMAIN section_info.pages :
                 /\ section_info.pages[pid].page_content_type \in {5, 7}
                 /\ DrawnRange(section_info.pages[pid]).min >
                       DrawnRange(section_info.pages[pid]).max)

\* C16 happens: a second-pass report is built for a section whose video page
\* holds a question element and whose other page, of type 5, holds it too.
C16_MismatchBuilt ==
    /\ SecondPassBuilt
    /\ Cardinality(DOMAIN section_info.pages) = 2
    /\ section_info.pages[1].page_content_type = 6
    /\ section_info.pages[2].page_content_type = 5
    /\ \A pid \in DOMAIN section_info.pages : Forbidden(section_info.pages[pid])
    /\ PositionsOf(section_info.pages[1].elements, "ElementQuestion") # <<>>
    /\ Len(ReportList) = 2

(***************************************************************************)
(* Claims about the cooldown and the end of the run                        *)
(***************************************************************************)
InLoop == run_pc \in {"build", "sync"}

\* C17: the cooldown sleep is entered only in the second pass and only from
\* the end of a section's submission loop; every end of a second-pass
\* submission loop is followed by it; it is followed by the next section's
\* initialisation (or the end of the textbook), never by another cooldown;
\* the first pass never sleeps it.
C17_CooldownSecondPassOnly ==
    [][/\ run_pc' = "cooldown" =>
             /\ ~handler_is_first
             /\ InLoop
             /\ sect'.outcome # "none"
             /\ sect'.first = FALSE /\ sect'.section = sec_idx
             /\ UNCHANGED <<unit_idx, handler_is_first, sec_idx>>
       /\ (InLoop /\ ~handler_is_first /\ sect'.outcome # "none") =>
             run_pc' = "cooldown"
       /\ run_pc = "cooldown" =>
             /\ run_pc' \in {"init", "prune"}
             /\ run_pc' = "init" /\ unit_idx' = unit_idx => sec_idx' = sec_idx + 1
       /\ handler_is_first => run_pc' # "cooldown"
      ]_vars

\* C17 happens: the cooldown after the second-pass submission of a section
\* that is not the last of its textbook.
C17_CoolingDown ==
    /\ run_pc = "cooldown"
    /\ sect.outcome = "success"
    /\ sec_idx < NumSections(courses, unit_idx)

\* Nothing in the courses is complete or empty: what
\* prune(remove_complete=true) and the pop of the empty courses leave.
NothingCompleteOrEmpty(crs) ==
    \A c \in DOMAIN crs :
       /\ DOMAIN crs[c].textbooks # {}
       /\ \A t \in DOMAIN crs[c].textbooks :
             /\ DOMAIN crs[c].textbooks[t].chapters # {}
             /\ \A ch \in DOMAIN crs[c].textbooks[t].chapters :
                   /\ DOMAIN crs[c].textbooks[t].chapters[ch].sections # {}
                   /\ \A s \in DOMAIN crs[c].textbooks[t].chapters[ch].sections :
                         LET pages == crs[c].textbooks[t].chapters[ch].sections[s].pages
                         IN  /\ DOMAIN pages # {}
                             /\ \A p \in DOMAIN pages : ~pages[p].is_complete

\* C18 as stated: a run that got past the confirmation and the user info
\* ends with exactly one final refresh followed by the prune, and ends
\* finished, with a warning if courses are left.
C18_Original ==
    finish.outcome = "finished" =>
       /\ finish.refreshes = 1
       /\ finish.prunes = 1
       /\ finish.warned <=> courses # EmptyDict

\* C18 (amended): a run that got past the confirmation and the user info
\* ends finished after every textbook was left; its final clean-up refreshes
\* once and then prunes with remove_complete when courses were left to
\* process, and does neither when the clean-up of the confirmation had
\* emptied the course map; the warning is given exactly when courses are
\* left at the end; a run that returned early has no final clean-up.
C18_FinalCleanUp ==
    /\ run_pc = "prune" => finish = NotFinished
    /\ finish.outcome = "returned" => finish.refreshes = 0 /\ finish.prunes = 0
    /\ finish.outcome = "finished" =>
          /\ run_pc = "done"
          /\ Len(textbooks_done) = unit_idx - 1
          /\ finish.refreshes = finish.prunes
          /\ IF textbooks_done = <<>>
                THEN finish.prunes = 0 /\ courses = EmptyDict
                ELSE finish.prunes = 1 /\ NothingCompleteOrEmpty(courses)
          /\ finish.warned <=> courses # EmptyDict

\* C18 happens: a run over a textbook ends finished with the warning, its
\* final clean-up having left courses.
C18_FinishedWithWarning ==
    /\ finish.outcome = "finished"
    /\ finish.prunes = 1
    /\ finish.warned
    /\ textbooks_done # <<>>
    /\ textbooks_done[1].handled_second = textbooks_done[1].sections

(***************************************************************************)
(* DataManager.parse_textbook_info                                         *)
(***************************************************************************)
\* Most chapters of a directory response tried.
MaxDirChapters == 2

\* TextbookInfoAPIResponse and its parts.
CoursePage(id, relationid, contentType) ==
    [id |-> id, relationid |-> relationid, title |-> "page",
     contentType |-> contentType]

Item(itemid, hide, coursepages) ==
    [itemid |-> itemid, title |-> "section", hide |-> hide,
     coursepages |-> coursepages]

Chapter(nodeid, hide, items) ==
    [nodeid |-> nodeid, nodetitle |-> "chapter", hide |-> hide, items |-> items]

TextbookInfoAPIResponse(courseid, chapters) ==
    [courseid |-> courseid, coursename |-> "textbook", chapters |-> chapters]

\* dict[key] = value
Put(dict, key, value) ==
    [k \in DOMAIN dict \cup {key} |-> IF k = key THEN value ELSE dict[k]]

\* No chapter and no section counts as hidden.
HiddenNever(entry) == FALSE

\* `if chapter_is_hidden`, `if section_is_hidden`: the truth of the hide flag
Hidden(entry) == entry.hide # 0

\* The page loop of parse_textbook_info, from entry i on.
RECURSIVE AddPages(_, _, _)
AddPages(pages, coursepages, i) ==
    IF i > Len(coursepages) THEN pages
    ELSE AddPages(Put(pages, coursepages[i].id,
                      [page_id |-> coursepages[i].id,
                       page_relation_id |-> coursepages[i].relationid,
                       page_name |-> coursepages[i].title,
                       page_content_type |-> coursepages[i].contentType,
                       is_complete |-> FALSE,
                       elements |-> <<>>]),
                  coursepages, i + 1)

\* The section loop of parse_textbook_info, from entry i on.
RECURSIVE AddSections(_, _, _)
AddSections(sections, items, i) ==
    IF i > Len(items) THEN sections
    ELSE IF Hidden(items[i]) THEN AddSections(sections, items, i + 1)
    ELSE AddSections(Put(sections, items[i].itemid,
                         [section_id |-> items[i].itemid,
                          section_name |-> items[i].title,
                          pages |-> AddPages(EmptyDict, items[i].coursepages, 1)]),
                     items, i + 1)

\* The chapter loop of parse_textbook_info, from entry i on.
RECURSIVE AddChapters(_, _, _)
AddChapters(chapters, list, i) ==
    IF i > Len(list) THEN chapters
    ELSE IF Hidden(list[i]) THEN AddChapters(chapters, list, i + 1)
    ELSE AddChapters(Put(chapters, list[i].nodeid,
                         [chapter_id |-> list[i].nodeid,
                          chapter_name |-> list[i].nodetitle,
                          sections |-> AddSections(EmptyDict, list[i].items, 1)]),
                     list, i + 1)

\* parse_textbook_info as a function: the returned bool and the tree. The
\* lookup of the textbook raises KeyError when it is not in the tree.
ParseTextbookInfo(course, info) ==
    IF info.courseid \notin DOMAIN course.textbooks
       THEN [status |-> FALSE, course_config |-> course]
       ELSE [status |-> TRUE,
             course_config |->
                [course EXCEPT !.textbooks[info.courseid].chapters =
                    AddChapters(@, info.chapters, 1)]]

\* The directory responses tried. Ids are unique: chapter c holds the
\* sections 10c + j, section s the pages 10s + k, and the relation id of a
\* page differs from its id.
DirPages(itemid, n) ==
    [k \in 1..n |-> CoursePage(10 * itemid + k, 10 * itemid + k + 500, 5 + (k % 4))]

\* The item lists of chapter c: none; one shown section of two pages; a
\* hidden section ahead of a shown one; a shown section without pages ahead
\* of a hidden one.
DirItems(c) ==
    <<<<>>,
      <<Item(10 * c + 1, 0, DirPages(10 * c + 1, 2))>>,
      <<Item(10 * c + 1, 1, DirPages(10 * c + 1, 1)),
        Item(10 * c + 2, 0, DirPages(10 * c + 2, 1))>>,
      <<Item(10 * c + 1, 0, <<>>),
        Item(10 * c + 2, 1, DirPages(10 * c + 2, 2))>>>>

DirShapes == [hide : Flags, items : DOMAIN DirItems(1)]

DirectoryResponses ==
    {TextbookInfoAPIResponse(tid,
        [c \in DOMAIN shapes |-> Chapter(c, shapes[c].hide, DirItems(c)[shapes[c].items])]) :
        tid \in TextbookIds, shapes \in SeqUpTo(DirShapes, MaxDirChapters)}

\* The course as __get_courseware builds it: the selected textbook, without
\* chapters.
FreshCourse == ModelCourse(1 :> ModelTextbook(1, EmptyDict))

InitDirectory ==
    /\ HttpIdle
    /\ EnrichIdle
    /\ ManageIdle
    /\ ReportIdle
    /\ RunIdle
    /\ tree_pc = "idle"
    /\ course_config = FreshCourse
    /\ course_before = NoCourse
    /\ course_once = NoCourse
    /\ textbook_id = 0
    /\ study_record_info = NoRecord
    /\ parse_status = None
    /\ remove_complete = FALSE
    /\ textbook_info \in DirectoryResponses
    /\ chapter_info = None
    /\ parsed_study_record_infos = EmptyDict

\* parse_textbook_info(course_config, textbook_info)
ParseTextbook ==
    /\ tree_pc = "idle"
    /\ tree_pc' = "parsed"
    /\ course_before' = course_config
    /\ LET r == ParseTextbookInfo(course_config, textbook_info)
       IN  /\ course_config' = r.course_config
           /\ parse_status' = r.status
    /\ UNCHANGED <<course_once, textbook_id, study_record_info, remove_complete,
                   textbook_info, chapter_info,
                   parsed_study_record_infos>>
    /\ UNCHANGED <<httpVars, repVars, runVars, enrVars, mgrVars>>

NextDirectory == ParseTextbook

SpecDirectory == InitDirectory /\ [][NextDirectory]_vars

\* The entries of a list of the response that are shown.
Shown(list) == {i \in 1..Len(list) : list[i].hide = 0}

\* C19: parse_textbook_info gives the textbook a chapter for exactly the
\* chapters of the response that are not hidden, each a section for exactly
\* its sections that are not hidden, each a page for every page of the
\* section, keyed by the remote page id and carrying page_id,
\* page_relation_id and content type, not complete and without elements;
\* nothing of a hidden chapter or section is in the tree.
C19_DirectoryTree ==
    (tree_pc = "parsed" /\ textbook_info # None) =>
       IF textbook_info.courseid \notin DOMAIN course_before.textbooks
          THEN parse_status = FALSE /\ course_config = course_before
          ELSE
             LET list == textbook_info.chapters
                 chapters == course_config.textbooks[textbook_info.courseid].chapters
             IN  /\ parse_status = TRUE
                 /\ DOMAIN chapters = {list[i].nodeid : i \in Shown(list)}
                 /\ \A i \in Shown(list) :
                       LET items == list[i].items
                           sections == chapters[list[i].nodeid].sections
                       IN  /\ chapters[list[i].nodeid].chapter_id = list[i].nodeid
                           /\ DOMAIN sections = {items[j].itemid : j \in Shown(items)}
                           /\ \A j \in Shown(items) :
                                 LET cps == items[j].coursepages
                                     pages == sections[items[j].itemid].pages
                                 IN  /\ sections[items[j].itemid].section_id = items[j].itemid
                                     /\ DOMAIN pages = {cps[k].id : k \in 1..Len(cps)}
                                     /\ \A k \in 1..Len(cps) :
                                           pages[cps[k].id] =
                                              CoursewarePage(cps[k].id, cps[k].relationid,
                                                             cps[k].contentType, FALSE, <<>>)

\* C19 happens: a response with a hidden section ahead of a shown one in a
\* shown chapter, and a hidden chapter with sections, was parsed.
C19_HiddenSkipped ==
    /\ tree_pc = "parsed"
    /\ textbook_info # None
    /\ parse_status = TRUE
    /\ Len(textbook_info.chapters) = 2
    /\ textbook_info.chapters[1].hide = 0
    /\ Len(textbook_info.chapters[1].items) = 2
    /\ textbook_info.chapters[1].items[1].hide = 1
    /\ textbook_info.chapters[2].hide = 1
    /\ textbook_info.chapters[2].items # <<>>
    /\ DOMAIN course_config.textbooks[1].chapters = {1}
    /\ DOMAIN course_config.textbooks[1].chapters[1].sections = {12}

(***************************************************************************)
(* DataManager.parse_chapter_info                                          *)
(***************************************************************************)
\* Most elements of a page of a chapter detail response tried.
MaxDetailElements == 2

\* The element classes of ChapterInfoAPIResponse. The element list is a
\* union discriminated by `type`, so the class of an element and its type
\* code go together.
ContentPageDTO == [class |-> "ContentPageDTO", type |-> 12, content |-> "content"]

DocumentPageDTO == [class |-> "DocumentPageDTO", type |-> 10, content |-> "document"]

VideoPageDTO(resourceid, videoLength) ==
    [class |-> "VideoPageDTO", type |-> 4, resourceid |-> resourceid,
     videoLength |-> videoLength]

\* score is a float, in steps of 1 / Scale.
QuestionDTO(questionid, score) ==
    [questionid |-> questionid, score |-> score, title |-> "question"]

QuestionPageDTO(questionDTOList) ==
    [class |-> "QuestionPageDTO", type |-> 6, questionDTOList |-> questionDTOList]

WholePageDTO(id, relationid, contentType, coursepageDTOList) ==
    [id |-> id, relationid |-> relationid, content |-> "page",
     contentType |-> contentType, coursepageDTOList |-> coursepageDTOList]

ItemDTO(itemid, wholepageDTOList) ==
    [itemid |-> itemid, wholepageDTOList |-> wholepageDTOList]

ChapterInfoAPIResponse(chapterid, wholepageItemDTOList) ==
    [chapterid |-> chapterid, wholepageItemDTOList |-> wholepageItemDTOList]

\* isinstance(element_info, cls)
IsInstance(element_info, cls) == element_info.class = cls

\* The questions of an ElementQuestion: question_score=int(question_score)
StoredQuestions(questionDTOList) ==
    [j \in DOMAIN questionDTOList |->
        Question(questionDTOList[j].questionid, IntOf(questionDTOList[j].score), <<>>)]

\* Classifies by the type code of the element alone.
StoredElementByTypeOnly(page_content_type, element_info) ==
    IF element_info.type = 10 THEN <<ElementDocumen>>
    ELSE IF element_info.type = 12 THEN <<ElementContent>>
    ELSE IF element_info.type = 4
         THEN <<ElementVideo(element_info.resourceid, element_info.videoLength)>>
    ELSE <<ElementQuestion(StoredQuestions(element_info.questionDTOList))>>

\* The body of the element loop: what one element of the response appends
\* to the elements of its page, nothing or one element.
StoredElement(page_content_type, element_info) ==
    IF page_content_type = 5
       THEN IF element_info.type = 10 /\ IsInstance(element_info, "DocumentPageDTO")
               THEN <<ElementDocumen>>
            ELSE IF element_info.type = 12 /\ IsInstance(element_info, "ContentPageDTO")
               THEN <<ElementContent>>
            ELSE <<>>
    ELSE IF page_content_type = 6
       THEN IF ~IsInstance(element_info, "VideoPageDTO") THEN <<>>
            ELSE <<ElementVideo(element_info.resourceid, element_info.videoLength)>>
    ELSE IF page_content_type = 7
       THEN IF ~IsInstance(element_info, "QuestionPageDTO") THEN <<>>
            ELSE <<ElementQuestion(StoredQuestions(element_info.questionDTOList))>>
    ELSE <<>>

\* The element loop, from entry i on.
RECURSIVE MergeElements(_, _, _, _)
MergeElements(elements, page_content_type, coursepageDTOList, i) ==
    IF i > Len(coursepageDTOList) THEN elements
    ELSE MergeElements(elements \o StoredElement(page_content_type, coursepageDTOList[i]),
                       page_content_type, coursepageDTOList, i + 1)

\* The page loop, from entry i on. course_config_pages[page_id] raises
\* KeyError for a page that is not in the tree; what was appended before
\* stays.
RECURSIVE MergePages(_, _, _)
MergePages(pages, wholepageDTOList, i) ==
    IF i > Len(wholepageDTOList) THEN [ok |-> TRUE, pages |-> pages]
    ELSE LET page_info == wholepageDTOList[i]
         IN  IF page_info.id \notin DOMAIN pages
                THEN [ok |-> FALSE, pages |-> pages]
                ELSE MergePages(
                        [pages EXCEPT ![page_info.id].elements =
                            MergeElements(@, page_info.contentType,
                                          page_info.coursepageDTOList, 1)],
                        wholepageDTOList, i + 1)

\* The section loop, from entry i on. A section that is not in the tree is
\* passed over.
RECURSIVE MergeSections(_, _, _)
MergeSections(sections, wholepageItemDTOList, i) ==
    IF i > Len(wholepageItemDTOList) THEN [ok |-> TRUE, sections |-> sections]
    ELSE LET item_info == wholepageItemDTOList[i]
         IN  IF item_info.itemid \notin DOMAIN sections
                THEN MergeSections(sections, wholepageItemDTOList, i + 1)
                ELSE LET r == MergePages(sections[item_info.itemid].pages,
                                         item_info.wholepageDTOList, 1)
                         merged == [sections EXCEPT ![item_info.itemid].pages = r.pages]
                     IN  IF r.ok
                            THEN MergeSections(merged, wholepageItemDTOList, i + 1)
                            ELSE [ok |-> FALSE, sections |-> merged]

\* parse_chapter_info as a function: the returned bool and the tree. The
\* lookups of the textbook and of the chapter raise KeyError when they are
\* not in the tree.
ParseChapterInfo(course, tid, info) ==
    IF \/ tid \notin DOMAIN course.textbooks
       \/ info.chapterid \notin DOMAIN course.textbooks[tid].chapters
       THEN [status |-> FALSE, course_config |-> course]
       ELSE LET r == MergeSections(course.textbooks[tid].chapters[info.chapterid].sections,
                                   info.wholepageItemDTOList, 1)
            IN  [status |-> r.ok,
                 course_config |->
                    [course EXCEPT
                        !.textbooks[tid].chapters[info.chapterid].sections = r.sections]]

\* The elements a response may hold: one of each class, the question
\* element with a whole and a fractional score.
DetailElements ==
    <<DocumentPageDTO, ContentPageDTO, VideoPageDTO(7, 600),
      QuestionPageDTO(<<QuestionDTO(1, 40 * Scale), QuestionDTO(2, (5 * Scale) \div 2)>>)>>

DetailElementLists ==
    {[i \in DOMAIN l |-> DetailElements[l[i]]] :
        l \in SeqUpTo(DOMAIN DetailElements, MaxDetailElements)}

\* The tree after parse_textbook_info: chapter 1 with the shown section 11
\* of the pages 111, of content type ct, and 112. Section 12 is hidden and
\* not in the tree.
DetailCourse(ct) ==
    ParseTextbookInfo(FreshCourse,
        TextbookInfoAPIResponse(1,
            <<Chapter(1, 0, <<Item(11, 0, <<CoursePage(111, 611, ct),
                                            CoursePage(112, 612, 6)>>),
                              Item(12, 1, <<CoursePage(121, 621, 5)>>)>>)>>)).course_config

\* The chapter detail responses for page 111 with the elements els, the
\* response giving the page the content type ct, which need not be the one
\* the directory gave it: the section alone; behind the section that is not in the tree, and before
\* page 112; before a page that is not in the tree; behind a page that is
\* not in the tree; for a chapter that is not in the tree.
ChapterDetails(ct, els) ==
    {ChapterInfoAPIResponse(1, <<ItemDTO(11, <<WholePageDTO(111, 611, ct, els)>>)>>),
     ChapterInfoAPIResponse(1,
        <<ItemDTO(12, <<WholePageDTO(121, 621, 5, <<DocumentPageDTO>>)>>),
          ItemDTO(11, <<WholePageDTO(111, 611, ct, els),
                        WholePageDTO(112, 612, 6, <<VideoPageDTO(8, 30)>>)>>)>>),
     ChapterInfoAPIResponse(1,
        <<ItemDTO(11, <<WholePageDTO(111, 611, ct, els),
                        WholePageDTO(119, 619, 6, <<VideoPageDTO(8, 30)>>)>>)>>),
     ChapterInfoAPIResponse(1,
        <<ItemDTO(11, <<WholePageDTO(119, 619, 6, <<VideoPageDTO(8, 30)>>),
                        WholePageDTO(111, 611, ct, els)>>)>>),
     ChapterInfoAPIResponse(2, <<ItemDTO(11, <<WholePageDTO(111, 611, ct, els)>>)>>)}

InitChapter ==
    /\ HttpIdle
    /\ EnrichIdle
    /\ ManageIdle
    /\ ReportIdle
    /\ RunIdle
    /\ tree_pc = "idle"
    /\ course_before = NoCourse
    /\ course_once = NoCourse
    /\ textbook_id = 1
    /\ study_record_info = NoRecord
    /\ parse_status = None
    /\ remove_complete = FALSE
    /\ textbook_info = None
    /\ parsed_study_record_infos = EmptyDict
    /\ \E ct \in ContentTypes, detail_ct \in ContentTypes, els \in DetailElementLists :
          /\ course_config = DetailCourse(ct)
          /\ chapter_info \in ChapterDetails(detail_ct, els)

\* parse_chapter_info(course_config, textbook_id, chapter_info)
ParseChapter ==
    /\ tree_pc = "idle"
    /\ tree_pc' = "parsed"
    /\ course_before' = course_config
    /\ LET r == ParseChapterInfo(course_config, textbook_id, chapter_info)
       IN  /\ course_config' = r.course_config
           /\ parse_status' = r.status
    /\ UNCHANGED <<course_once, textbook_id, study_record_info, remove_complete,
                   textbook_info, chapter_info,
                   parsed_study_record_infos>>
    /\ UNCHANGED <<httpVars, repVars, runVars, enrVars, mgrVars>>

NextChapter == ParseChapter

SpecChapter == InitChapter /\ [][NextChapter]_vars

\* The variant the classification table gives a (content type, type code)
\* pair, "none" for a pair that is not in the table.
TableVariant(ct, type) ==
    IF ct = 5 /\ type = 10 THEN "ElementDocumen"
    ELSE IF ct = 5 /\ type = 12 THEN "ElementContent"
    ELSE IF ct = 6 /\ type = 4 THEN "ElementVideo"
    ELSE IF ct = 7 /\ type = 6 THEN "ElementQuestion"
    ELSE "none"

\* The positions of the elements of a response page whose pair is in the
\* table, in order.
RECURSIVE TablePositions(_, _)
TablePositions(page_info, i) ==
    IF i > Len(page_info.coursepageDTOList) THEN <<>>
    ELSE (IF TableVariant(page_info.contentType, page_info.coursepageDTOList[i].type) = "none"
             THEN <<>> ELSE <<i>>)
         \o TablePositions(page_info, i + 1)

\* The first page of the response section that is in the tree.
DetailPage ==
    LET items == chapter_info.wholepageItemDTOList
        i == CHOOSE j \in DOMAIN items : items[j].itemid = 11
    IN  items[i].wholepageDTOList[1]

LegalVariants(content_type) ==
    IF content_type = 5 THEN {"ElementDocumen", "ElementContent"}
    ELSE IF content_type = 6 THEN {"ElementVideo"}
    ELSE IF content_type = 7 THEN {"ElementQuestion"}
    ELSE {}

\* The pages of a course, as <<textbook, chapter, section, page>> ids.
TreePages(course) ==
    UNION {UNION {UNION {{<<t, c, s, p>> :
                            p \in DOMAIN course.textbooks[t].chapters[c].sections[s].pages} :
                         s \in DOMAIN course.textbooks[t].chapters[c].sections} :
                  c \in DOMAIN course.textbooks[t].chapters} :
           t \in DOMAIN course.textbooks}

\* C21: after a tree was built from a directory response and a chapter
\* detail was merged into it, every element of a page is of a variant that
\* is legal for the content type of the page, also when the chapter detail
\* gives the page another content type than the directory did.
C21_Original ==
    tree_pc = "parsed" =>
       \A path \in TreePages(course_config) :
          \A k \in DOMAIN PageAt(course_config, path).elements :
             PageAt(course_config, path).elements[k].type
                \in LegalVariants(PageAt(course_config, path).page_content_type)

\* C22: after the merge of a chapter detail that names a section or a page
\* that is not in the tree, every page of the response that is in the tree,
\* in a section that is in the tree, has the elements the response gives it.
C22_Original ==
    (tree_pc = "parsed" /\ chapter_info # None /\ chapter_info.chapterid = 1) =>
       LET sections == course_config.textbooks[1].chapters[1].sections
       IN  \A i \in DOMAIN chapter_info.wholepageItemDTOList :
              LET item_info == chapter_info.wholepageItemDTOList[i]
              IN  item_info.itemid \in DOMAIN sections =>
                     \A j \in DOMAIN item_info.wholepageDTOList :
                        LET page_info == item_info.wholepageDTOList[j]
                            pages == sections[item_info.itemid].pages
                        IN  page_info.id \in DOMAIN pages =>
                               Len(pages[page_info.id].elements)
                                  = Len(TablePositions(page_info, 1))

(***************************************************************************)
(* CoursewareManager.__prune_completed_courseware: the refresh of the      *)
(* study records of a chapter                                              *)
(***************************************************************************)
\* What get_study_record_info gives for a section: (status, record).
FetchFailed == [status |-> FALSE, record |-> None]

NotStudied == [status |-> TRUE, record |-> None]

Studied(record) == [status |-> TRUE, record |-> record]

\* The section loop that ends at the first record parse_study_record_info
\* rejects.
RECURSIVE RefreshRecordsUntilRejected(_, _, _, _, _)
RefreshRecordsUntilRejected(course, tid, sids, parsed, i) ==
    IF i > Len(sids) THEN [course_config |-> course, statuses |-> EmptyDict]
    ELSE LET resp == parsed[sids[i]]
         IN  IF ~resp.status \/ resp.record = None
                THEN RefreshRecordsUntilRejected(course, tid, sids, parsed, i + 1)
                ELSE LET r == ParseStudyRecordInfo(course, tid, resp.record)
                         rest == RefreshRecordsUntilRejected(r.course_config, tid, sids,
                                                             parsed, i + 1)
                     IN  IF r.status
                            THEN [course_config |-> rest.course_config,
                                  statuses |-> Put(rest.statuses, sids[i], TRUE)]
                            ELSE [course_config |-> course,
                                  statuses |-> Put(EmptyDict, sids[i], FALSE)]

\* The section loop of the refresh, from position i of the section ids on:
\* a failed fetch and a section not studied are passed over, a record goes
\* to parse_study_record_info, whose return value is not looked at. Gives
\* the tree and, per section parsed, what parse_study_record_info returned.
RECURSIVE RefreshRecords(_, _, _, _, _)
RefreshRecords(course, tid, sids, parsed, i) ==
    IF i > Len(sids) THEN [course_config |-> course, statuses |-> EmptyDict]
    ELSE LET resp == parsed[sids[i]]
         IN  IF ~resp.status \/ resp.record = None
                THEN RefreshRecords(course, tid, sids, parsed, i + 1)
                ELSE LET r == ParseStudyRecordInfo(course, tid, resp.record)
                         rest == RefreshRecords(r.course_config, tid, sids, parsed, i + 1)
                     IN  [course_config |-> rest.course_config,
                          statuses |-> Put(rest.statuses, sids[i], r.status)]

\* The refresh of one chapter: the study records of its sections are
\* gathered, then the section loop runs.
RefreshChapter(course, tid, cid, parsed) ==
    RefreshRecords(course, tid,
                   Keys(DOMAIN course.textbooks[tid].chapters[cid].sections), parsed, 1)

\* The tree refreshed: chapter 1 with the sections 1 and 2. Relation id 1
\* is in both sections.
RefreshTree(done1, done2) ==
    ModelCourse(1 :> ModelTextbook(1, 1 :> CoursewareChapter(1,
        (1 :> CoursewareSection(1, (11 :> CoursewarePage(11, 1, 5, done1, <<>>))
                                   @@ (12 :> CoursewarePage(12, 2, 5, FALSE, <<>>))))
        @@ (2 :> CoursewareSection(2, 21 :> CoursewarePage(21, 1, 5, done2, <<>>))))))

\* The page lists of the records tried.
RefreshLists ==
    {<<>>,
     <<[pageid |-> 1, complete |-> 1]>>,
     <<[pageid |-> 2, complete |-> 1]>>,
     <<[pageid |-> 1, complete |-> 1], [pageid |-> 2, complete |-> 1]>>,
     <<[pageid |-> 1, complete |-> 1], [pageid |-> 1, complete |-> 0]>>}

\* What the gather may give for section sid: no answer, not studied, or a
\* record that names the section, chapter 2 (not in the tree) or section 3
\* (not in the tree).
RefreshResponses(sid) ==
    {FetchFailed, NotStudied}
    \cup {Studied([node_id |-> ids[1], item_id |-> ids[2], pageStudyRecordDTOList |-> l]) :
             ids \in {<<1, sid>>, <<2, sid>>, <<1, 3>>}, l \in RefreshLists}

InitRefresh ==
    /\ HttpIdle
    /\ EnrichIdle
    /\ ManageIdle
    /\ ReportIdle
    /\ RunIdle
    /\ tree_pc = "idle"
    /\ course_config \in {RefreshTree(done1, done2) : done1 \in BOOLEAN, done2 \in BOOLEAN}
    /\ course_before = NoCourse
    /\ course_once = NoCourse
    /\ textbook_id = 1
    /\ study_record_info = NoRecord
    /\ parse_status = EmptyDict
    /\ remove_complete = FALSE
    /\ textbook_info = None
    /\ chapter_info = None
    /\ parsed_study_record_infos = EmptyDict

\* The refresh of chapter 1. parse_status holds, per section whose record
\* was parsed, what parse_study_record_info returned.
RefreshStudyRecords(parsed) ==
    /\ tree_pc = "idle"
    /\ tree_pc' = "refreshed"
    /\ parsed_study_record_infos' = parsed
    /\ course_before' = course_config
    /\ LET r == RefreshChapter(course_config, textbook_id, 1, parsed)
       IN  /\ course_config' = r.course_config
           /\ parse_status' = r.statuses
    /\ UNCHANGED <<course_once, textbook_id, study_record_info, remove_complete,
                   textbook_info, chapter_info>>
    /\ UNCHANGED <<httpVars, repVars, runVars, enrVars, mgrVars>>

\* The last loop of __prune_completed_courseware: course_info.prune(True)
PruneRefreshed ==
    /\ tree_pc = "refreshed"
    /\ tree_pc' = "pruned"
    /\ remove_complete' = TRUE
    /\ course_config' = CoursePrune(course_config, TRUE)
    /\ UNCHANGED <<course_before, course_once, textbook_id, study_record_info,
                   parse_status, textbook_info, chapter_info,
                   parsed_study_record_infos>>
    /\ UNCHANGED <<httpVars, repVars, runVars, enrVars, mgrVars>>

NextRefresh ==
    \/ \E resp1 \in RefreshResponses(1), resp2 \in RefreshResponses(2) :
          RefreshStudyRecords((1 :> resp1) @@ (2 :> resp2))
    \/ PruneRefreshed

SpecRefresh == InitRefresh /\ [][NextRefresh]_vars

\* The record of a section names a chapter or a section that is not in the
\* tree.
NamesAbsent(resp) ==
    /\ resp.status
    /\ resp.record # None
    /\ ~HasSection(course_before, 1, resp.record.node_id, resp.record.item_id)

\* C23: in the refresh, a study record that names a chapter or a section
\* that is not in the textbook makes parse_study_record_info return false
\* and changes nothing in the tree, and the records of the other sections
\* are applied all the same: after the refresh every section whose record
\* names it has the flags of its record, and every other section is as it
\* was before.
C23_AbsentRecordSkipped ==
    tree_pc = "refreshed" =>
       /\ \A sid \in {1, 2} :
             LET resp == parsed_study_record_infos[sid]
                 was == course_before.textbooks[1].chapters[1].sections[sid]
                 now == course_config.textbooks[1].chapters[1].sections[sid]
             IN  /\ NamesAbsent(resp) =>
                       /\ sid \in DOMAIN parse_status
                       /\ parse_status[sid] = FALSE
                       /\ now = was
                 /\ (resp.status /\ resp.record # None /\ ~NamesAbsent(resp)) =>
                       /\ sid \in DOMAIN parse_status
                       /\ parse_status[sid] = TRUE
                       /\ now = [was EXCEPT !.pages =
                                    MarkAll(@, resp.record.pageStudyRecordDTOList, 1)]
       /\ (\A sid \in {1, 2} : NamesAbsent(parsed_study_record_infos[sid]))
             => course_config = course_before

\* C23 happens: the record of section 1 names a chapter that is not in the
\* tree, and the record of section 2, the section after it, was applied.
C23_LaterSectionApplied ==
    /\ tree_pc = "refreshed"
    /\ NamesAbsent(parsed_study_record_infos[1])
    /\ parsed_study_record_infos[1].record.node_id = 2
    /\ DOMAIN parse_status = {1, 2}
    /\ parse_status[1] = FALSE
    /\ parse_status[2] = TRUE
    /\ ~course_before.textbooks[1].chapters[1].sections[2].pages[21].is_complete
    /\ course_config.textbooks[1].chapters[1].sections[2].pages[21].is_complete
    /\ course_config.textbooks[1].chapters[1].sections[1]
          = course_before.textbooks[1].chapters[1].sections[1]

(***************************************************************************)
(* Claims about the run as a whole                                         *)
(***************************************************************************)
\* initialize_section was called for every section of every textbook of the
\* courses, in the first and in the second pass.
AllAttempted ==
    /\ Len(textbooks_done) = Len(RunUnits(courses))
    /\ \A u \in 1..Len(textbooks_done) :
          /\ textbooks_done[u].sections = NumSections(courses, u)
          /\ textbooks_done[u].inits_first = textbooks_done[u].sections
          /\ textbooks_done[u].inits_second = textbooks_done[u].sections

VideosToPing(section) ==
    UNION {{<<pid, i>> : i \in {j \in 1..Len(section.pages[pid].elements) :
                                  section.pages[pid].elements[j].type = "ElementVideo"}} :
           pid \in {p \in DOMAIN section.pages :
                      section.pages[p].page_content_type = 6}}

\* No page of the section makes build_sync_study_record_request fail.
CanBuild(section) ==
    ~\E pid \in DOMAIN section.pages :
        PageRaises(section.pages[pid], study_time_config, handler_is_first)

\* C27: pings are sent in the second pass only, after the initialisation
\* of the section succeeded and before its report is sent; when they are
\* over, one was sent for every video element of every page of content type
\* 6; and whatever the pings returned, the report that can be built is
\* sent.
C27_PingsBeforeReport ==
    /\ sect.first => sect.pings = 0 /\ run_pc # "ping"
    /\ run_pc = "ping" =>
          /\ ~handler_is_first
          /\ sect.init = "ok"
          /\ sect.sync_calls = 0
    /\ (run_pc \in {"build", "sync", "sleep", "cooldown"} /\ ~handler_is_first) =>
          sect.pings = Cardinality(VideosToPing(CurrentSection))
    /\ run_pc = "cooldown" =>
          (sect.sync_calls >= 1) = CanBuild(CurrentSection)

\* C27 happens: both videos of a page were pinged, a ping was rejected, and
\* the report of the section was sent and accepted.
C27_ReportAfterRejectedPing ==
    /\ run_pc = "cooldown"
    /\ sect.pings = 2
    /\ sect.ping_rejected
    /\ sect.sync_calls = 1
    /\ sect.accepted
(***************************************************************************)
(* CoursewareManager.__complete_courseware, called by __courseware_config: *)
(* the enrichment of one course of the configuration                       *)
(***************************************************************************)
\* Most requests the server has no data for in one enrichment.
MaxNoData == 2

\* A read that has not completed.
Pending == [kind |-> "Pending"]

\* The course as __courseware_config builds it: the selected textbooks,
\* without chapters.
SelectedCourse ==
    ModelCourse((1 :> ModelTextbook(1, EmptyDict)) @@ (2 :> ModelTextbook(2, EmptyDict)))

\* What the server holds. Textbook 1 has the chapters 11 (sections 111 with
\* a question page of two questions, 112 with a document page) and 12
\* (section 121 with a video page); textbook 2 has chapter 21 (section 211
\* with a document page). A node is named by its parent's id and a digit.
ServerDirectory(tid) ==
    IF tid = 1
       THEN TextbookInfoAPIResponse(1,
               <<Chapter(11, 0, <<Item(111, 0, <<CoursePage(1111, 1611, 7)>>),
                                  Item(112, 0, <<CoursePage(1121, 1621, 5)>>)>>),
                 Chapter(12, 0, <<Item(121, 0, <<CoursePage(1211, 1711, 6)>>)>>)>>)
       ELSE TextbookInfoAPIResponse(2,
               <<Chapter(21, 0, <<Item(211, 0, <<CoursePage(2111, 2611, 5)>>)>>)>>)

ServerElements(page_id) ==
    IF page_id = 1111
       THEN <<QuestionPageDTO(<<QuestionDTO(1, 40 * Scale), QuestionDTO(2, 60 * Scale)>>)>>
    ELSE IF page_id = 1211 THEN <<VideoPageDTO(page_id, 600)>>
    ELSE <<DocumentPageDTO>>

ServerChapter(cid) ==
    LET chapter == ServerDirectory(cid \div 10).chapters[cid % 10]
    IN  ChapterInfoAPIResponse(cid,
           [i \in DOMAIN chapter.items |->
               ItemDTO(chapter.items[i].itemid,
                       [k \in DOMAIN chapter.items[i].coursepages |->
                           WholePageDTO(chapter.items[i].coursepages[k].id,
                                        chapter.items[i].coursepages[k].relationid,
                                        chapter.items[i].coursepages[k].contentType,
                                        ServerElements(
                                           chapter.items[i].coursepages[k].id))])])

\* The study record of a section: section 112 was not studied, of every
\* other section the one page is complete.
ServerRecord(sid) ==
    IF sid = 112 THEN NotStudied
    ELSE Studied([node_id |-> sid \div 10, item_id |-> sid,
                  pageStudyRecordDTOList |->
                     <<[pageid |-> 10 * sid + 501, complete |-> 1]>>])

\* QuestionAnswerAPIResponse of a question
ServerAnswers(qid) == [correctAnswerList |-> <<"answer", qid>>]

\* The reads an enrichment of the course can issue, by level and id.
Requests ==
    ({"textbooks"} \X {1, 2}) \cup ({"chapters"} \X {11, 12, 21})
       \cup ({"records"} \X {111, 112, 121, 211}) \cup ({"answers"} \X {1, 2})

\* What a read of the CourseAPI returns for the id it was called with.
ApiResponse(level, id) ==
    IF <<level, id>> \in no_data
       THEN IF level = "records" THEN FetchFailed ELSE None
    ELSE IF level = "textbooks" THEN ServerDirectory(id)
    ELSE IF level = "chapters" THEN ServerChapter(id)
    ELSE IF level = "records" THEN ServerRecord(id)
    ELSE ServerAnswers(id)

\* The ids the reads are called with.
RequestIds == {request[2] : request \in Requests}

\* `coros = [...]` and the start of `await asyncio.gather(*coros)`: one
\* read per id, none completed.
StartGather(level, ids) ==
    [level |-> level, coros |-> ids,
     results |-> [id \in {ids[i] : i \in DOMAIN ids} |-> Pending],
     arrival |-> <<>>]

\* What asyncio.gather would return if it listed the results in the order
\* the reads completed.
GatherAsCompleted(g) ==
    [i \in DOMAIN g.coros |-> (g.coros[i] :> g.results[g.arrival[i]])]

\* What asyncio.gather returns: the results in the order of the coroutines,
\* each the one-entry dict of the id the read was called with.
Gather(g) == [i \in DOMAIN g.coros |-> (g.coros[i] :> g.results[g.coros[i]])]

\* `for result in results: for id, info in result.items(): parsed[id] = info`
RECURSIVE MergeResults(_, _, _)
MergeResults(parsed, results, i) ==
    IF i > Len(results) THEN parsed
    ELSE MergeResults(results[i] @@ parsed, results, i + 1)

\* The keys the loops are at.
TextbookKeys == Keys(DOMAIN enriching.textbooks)
CurTextbook == TextbookKeys[position.textbook]
ChapterKeys == Keys(DOMAIN enriching.textbooks[CurTextbook].chapters)
CurChapter == ChapterKeys[position.chapter]
SectionKeys ==
    Keys(DOMAIN enriching.textbooks[CurTextbook].chapters[CurChapter].sections)
CurSection == SectionKeys[position.section]
CurPages ==
    enriching.textbooks[CurTextbook].chapters[CurChapter].sections[CurSection].pages
PageKeys == Keys(DOMAIN CurPages)
CurPage == PageKeys[position.page]

\* The loop is left at the unit without data.
BreakAtNoData(pos, level) == [pos EXCEPT ![level] = 99]

\* `if not resp_...: continue`: the loop goes on with the next unit.
AfterNoData(pos, level) == [pos EXCEPT ![level] = @ + 1]

\* The head of __complete_courseware for the course: the reads of its
\* textbook directories are issued.
CompleteCourseware ==
    /\ enrich_pc = "idle"
    /\ enrich_pc' = "gather"
    /\ gathered' = StartGather("textbooks", TextbookKeys)
    /\ UNCHANGED <<no_data, enriching, parsed_infos, position, out_of_order,
                   user_courses>>
    /\ UNCHANGED <<httpVars, treeVars, repVars, runVars, mgrVars>>

\* One read of the gather completes, in any order.
ReadCompletes(id) ==
    /\ enrich_pc = "gather"
    /\ id \in DOMAIN gathered.results
    /\ gathered.results[id] = Pending
    /\ gathered' = [gathered EXCEPT !.results[id] = ApiResponse(gathered.level, id),
                                    !.arrival = Append(@, id)]
    /\ out_of_order' =
          (out_of_order \/ \E i, j \in DOMAIN gathered.coros :
                              /\ i < j
                              /\ gathered.coros[j] = id
                              /\ gathered.results[gathered.coros[i]] = Pending)
    /\ UNCHANGED <<enrich_pc, no_data, enriching, parsed_infos, position, user_courses>>
    /\ UNCHANGED <<httpVars, treeVars, repVars, runVars, mgrVars>>

\* `await asyncio.gather(...)` returns when every read has completed; the
\* results are merged into the parsed dict of the level and its loop starts.
Gathered ==
    /\ enrich_pc = "gather"
    /\ \A id \in DOMAIN gathered.results : gathered.results[id] # Pending
    /\ parsed_infos' = [parsed_infos EXCEPT ![gathered.level] =
                           MergeResults(EmptyDict, Gather(gathered), 1)]
    /\ IF gathered.level = "textbooks"
          THEN enrich_pc' = "textbook" /\ position' = [position EXCEPT !.textbook = 1]
       ELSE IF gathered.level = "chapters"
          THEN enrich_pc' = "chapter" /\ position' = [position EXCEPT !.chapter = 1]
       ELSE IF gathered.level = "records"
          THEN enrich_pc' = "section" /\ position' = [position EXCEPT !.section = 1]
       ELSE enrich_pc' = "answers" /\ position' = position
    /\ UNCHANGED <<no_data, enriching, gathered, out_of_order, user_courses>>
    /\ UNCHANGED <<httpVars, treeVars, repVars, runVars, mgrVars>>

\* The head of the textbook loop: the end of the loop, a textbook without
\* data skipped, or the directory parsed and the reads of the chapter
\* details issued.
TextbookLoop ==
    /\ enrich_pc = "textbook"
    /\ IF position.textbook > Len(TextbookKeys)
          THEN /\ enrich_pc' = "prune"
               /\ UNCHANGED <<enriching, gathered, position>>
       ELSE IF parsed_infos.textbooks[CurTextbook] = None
          THEN /\ position' = AfterNoData(position, "textbook")
               /\ UNCHANGED <<enrich_pc, enriching, gathered>>
       ELSE \E parsed \in {ParseTextbookInfo(enriching,
                              parsed_infos.textbooks[CurTextbook]).course_config} :
               /\ enriching' = parsed
               /\ gathered' = StartGather("chapters",
                                 Keys(DOMAIN parsed.textbooks[CurTextbook].chapters))
               /\ enrich_pc' = "gather"
               /\ UNCHANGED position
    /\ UNCHANGED <<no_data, parsed_infos, out_of_order, user_courses>>
    /\ UNCHANGED <<httpVars, treeVars, repVars, runVars, mgrVars>>

\* The head of the chapter loop, likewise.
ChapterLoop ==
    /\ enrich_pc = "chapter"
    /\ IF position.chapter > Len(ChapterKeys)
          THEN /\ enrich_pc' = "textbook"
               /\ position' = [position EXCEPT !.textbook = @ + 1]
               /\ UNCHANGED <<enriching, gathered>>
       ELSE IF parsed_infos.chapters[CurChapter] = None
          THEN /\ position' = AfterNoData(position, "chapter")
               /\ UNCHANGED <<enrich_pc, enriching, gathered>>
       ELSE \E parsed \in {ParseChapterInfo(enriching, CurTextbook,
                              parsed_infos.chapters[CurChapter]).course_config} :
               /\ enriching' = parsed
               /\ gathered' = StartGather("records",
                                 Keys(DOMAIN parsed.textbooks[CurTextbook]
                                                .chapters[CurChapter].sections))
               /\ enrich_pc' = "gather"
               /\ UNCHANGED position
    /\ UNCHANGED <<no_data, parsed_infos, out_of_order, user_courses>>
    /\ UNCHANGED <<httpVars, treeVars, repVars, runVars, mgrVars>>

\* The head of the section loop: the end of the loop, or the pages of the
\* next section.
SectionLoop ==
    /\ enrich_pc = "section"
    /\ IF position.section > Len(SectionKeys)
          THEN /\ enrich_pc' = "chapter"
               /\ position' = [position EXCEPT !.chapter = @ + 1]
          ELSE /\ enrich_pc' = "element"
               /\ position' = [position EXCEPT !.page = 1, !.element = 1]
    /\ UNCHANGED <<no_data, enriching, gathered, parsed_infos, out_of_order,
                   user_courses>>
    /\ UNCHANGED <<httpVars, treeVars, repVars, runVars, mgrVars>>

\* The study record of a section after its pages: a failed fetch and a
\* section not studied are skipped, a record is parsed into the course.
RecordApplied(course, tid, parsed) ==
    IF ~parsed.status \/ parsed.record = None THEN course
    ELSE ParseStudyRecordInfo(course, tid, parsed.record).course_config

\* The page and element loops of a section, up to the next await: past the
\* last page the study record is handled and the section is done; a page
\* that is not a question page and the end of a page's elements go on; an
\* element of a question page that is no ElementQuestion raises, which ends
\* __courseware_config in its except; for an ElementQuestion the reads of
\* the answers of its questions are issued.
ElementLoop ==
    /\ enrich_pc = "element"
    /\ IF position.page > Len(PageKeys)
          THEN /\ enriching' = RecordApplied(enriching, CurTextbook,
                                             parsed_infos.records[CurSection])
               /\ position' = AfterNoData(position, "section")
               /\ enrich_pc' = "section"
               /\ UNCHANGED gathered
       ELSE \E page_info \in {CurPages[CurPage]} :
            IF \/ page_info.page_content_type # 7
               \/ position.element > Len(page_info.elements)
               THEN /\ position' = [position EXCEPT !.page = @ + 1, !.element = 1]
                    /\ UNCHANGED <<enrich_pc, enriching, gathered>>
            ELSE IF page_info.elements[position.element].type # "ElementQuestion"
               THEN /\ enrich_pc' = "failed"
                    /\ UNCHANGED <<enriching, gathered, position>>
            ELSE \E questions \in {page_info.elements[position.element].questions} :
                    /\ gathered' = StartGather("answers",
                                      [i \in DOMAIN questions |->
                                          questions[i].question_id])
                    /\ enrich_pc' = "gather"
                    /\ UNCHANGED <<enriching, position>>
    /\ UNCHANGED <<no_data, parsed_infos, out_of_order, user_courses>>
    /\ UNCHANGED <<httpVars, treeVars, repVars, runVars, mgrVars>>

\* The question loop after the gather, over the first `stop - 1` questions:
\* question_info.question_answer_list = resp.correctAnswerList
AnswersSet(questions, parsed, stop) ==
    [i \in DOMAIN questions |->
        IF i < stop
           THEN [questions[i] EXCEPT !.question_answer_list =
                    parsed[questions[i].question_id].correctAnswerList]
           ELSE questions[i]]

\* `if not resp_question_answer_list: ... raise`: an answer list without
\* data raises, which ends __courseware_config in its except.
RaisesAt(questions, parsed) ==
    {i \in DOMAIN questions : parsed[questions[i].question_id] = None}

\* The question loop of an element after its gather.
ApplyAnswers ==
    /\ enrich_pc = "answers"
    /\ \E tid \in {CurTextbook}, cid \in {CurChapter}, sid \in {CurSection},
          pid \in {CurPage} :
       \E questions \in {CurPages[pid].elements[position.element].questions} :
       \E raises \in {RaisesAt(questions, parsed_infos.answers)} :
       \E stop \in {IF raises = {} THEN Len(questions) + 1
                    ELSE CHOOSE i \in raises : \A j \in raises : i <= j} :
          /\ enriching' =
                [enriching EXCEPT
                    !.textbooks[tid].chapters[cid].sections[sid].pages[pid]
                     .elements[position.element].questions =
                        AnswersSet(questions, parsed_infos.answers, stop)]
          /\ IF raises # {}
                THEN enrich_pc' = "failed" /\ position' = position
                ELSE /\ enrich_pc' = "element"
                     /\ position' = [position EXCEPT !.element = @ + 1]
    /\ UNCHANGED <<no_data, gathered, parsed_infos, out_of_order, user_courses>>
    /\ UNCHANGED <<httpVars, treeVars, repVars, runVars, mgrVars>>

\* The end of __complete_courseware and what __courseware_config does after
\* it: the empty courseware is pruned, a course left without textbooks is
\* popped, and the configuration is assigned and saved.
SaveCourseware ==
    /\ enrich_pc = "prune"
    /\ enrich_pc' = "done"
    /\ \E pruned \in {CoursePrune(enriching, FALSE)} :
          /\ enriching' = pruned
          /\ user_courses' =
                [courses |-> IF DOMAIN pruned.textbooks = {} THEN EmptyDict
                             ELSE (pruned.course_id :> pruned),
                 saved |-> TRUE]
    /\ UNCHANGED <<no_data, gathered, parsed_infos, position, out_of_order>>
    /\ UNCHANGED <<httpVars, treeVars, repVars, runVars, mgrVars>>

InitEnrich ==
    /\ HttpIdle
    /\ TreeIdle
    /\ ReportIdle
    /\ RunIdle
    /\ ManageIdle
    /\ enrich_pc = "idle"
    /\ no_data \in {S \in SUBSET Requests : Cardinality(S) <= MaxNoData}
    /\ enriching = SelectedCourse
    /\ gathered = NoGather
    /\ parsed_infos = NothingParsed
    /\ position = NotEntered
    /\ out_of_order = FALSE
    /\ user_courses = NotSaved

NextEnrich ==
    \/ CompleteCourseware
    \/ \E id \in RequestIds : ReadCompletes(id)
    \/ Gathered
    \/ TextbookLoop
    \/ ChapterLoop
    \/ SectionLoop
    \/ ElementLoop
    \/ ApplyAnswers
    \/ SaveCourseware

SpecEnrich == InitEnrich /\ [][NextEnrich]_vars

------------------------------------------------------------------------------
\* Claims about the enrichment of the configuration

\* The answers every question of a question element is given; a question
\* without answers is left as it is (and the enrichment raises).
ExpectedQuestions(questions) ==
    [q \in DOMAIN questions |->
        IF ApiResponse("answers", questions[q].question_id) = None
           THEN questions[q]
           ELSE [questions[q] EXCEPT !.question_answer_list =
                    ApiResponse("answers",
                                questions[q].question_id).correctAnswerList]]

\* A question page with the answers of its questions; another page as it is.
ExpectedPage(page) ==
    IF page.page_content_type = 7
       THEN [page EXCEPT !.elements =
                [e \in DOMAIN page.elements |->
                    [page.elements[e] EXCEPT !.questions = ExpectedQuestions(@)]]]
       ELSE page

\* A section after its pass of the section loop: the answers of its question
\* pages, then the study record that was requested for it.
ExpectedSection(course, tid, cid, sid) ==
    LET pages == course.textbooks[tid].chapters[cid].sections[sid].pages
        answered == [course EXCEPT
                        !.textbooks[tid].chapters[cid].sections[sid].pages =
                            [p \in DOMAIN pages |-> ExpectedPage(pages[p])]]
    IN  RecordApplied(answered, tid, ApiResponse("records", sid))

RECURSIVE ExpectedSections(_, _, _, _, _)
ExpectedSections(course, tid, cid, sids, i) ==
    IF i > Len(sids) THEN course
    ELSE ExpectedSections(ExpectedSection(course, tid, cid, sids[i]),
                          tid, cid, sids, i + 1)

\* A chapter after its pass of the chapter loop: the detail requested for it
\* parsed, then its sections.
ExpectedChapter(course, tid, cid) ==
    LET detail == ApiResponse("chapters", cid)
        parsed == ParseChapterInfo(course, tid, detail).course_config
    IN  IF detail = None THEN course
        ELSE ExpectedSections(parsed, tid, cid,
                Keys(DOMAIN parsed.textbooks[tid].chapters[cid].sections), 1)

RECURSIVE ExpectedChapters(_, _, _, _)
ExpectedChapters(course, tid, cids, i) ==
    IF i > Len(cids) THEN course
    ELSE ExpectedChapters(ExpectedChapter(course, tid, cids[i]), tid, cids, i + 1)

\* A textbook after its pass of the textbook loop: the directory requested
\* for it parsed, then its chapters.
ExpectedTextbook(course, tid) ==
    LET directory == ApiResponse("textbooks", tid)
        parsed == ParseTextbookInfo(course, directory).course_config
    IN  IF directory = None THEN course
        ELSE ExpectedChapters(parsed, tid,
                Keys(DOMAIN parsed.textbooks[tid].chapters), 1)

RECURSIVE ExpectedTextbooks(_, _, _)
ExpectedTextbooks(course, tids, i) ==
    IF i > Len(tids) THEN course
    ELSE ExpectedTextbooks(ExpectedTextbook(course, tids[i]), tids, i + 1)

\* The tree the enrichment ends with, a function of what the server answers
\* for each node and of nothing else.
ExpectedCourse ==
    CoursePrune(ExpectedTextbooks(SelectedCourse,
                                  Keys(DOMAIN SelectedCourse.textbooks), 1), FALSE)

\* C28: the tree the enrichment produces is the same for every completion
\* order of the reads of a level. The loop of a level runs only when every
\* read of its gather has completed, each parsed entry is the answer that was
\* requested for its id, and the enrichment ends with the tree that gives
\* every node the answers requested for it, whatever the order of arrival.
C28_MergedByIdentity ==
    /\ enrich_pc \notin {"idle", "gather"} =>
          \A id \in DOMAIN gathered.results : gathered.results[id] # Pending
    /\ \A level \in DOMAIN parsed_infos :
          \A id \in DOMAIN parsed_infos[level] :
             parsed_infos[level][id] = ApiResponse(level, id)
    /\ enrich_pc = "done" =>
          /\ enriching = ExpectedCourse
          /\ user_courses =
                [courses |-> IF DOMAIN ExpectedCourse.textbooks = {} THEN EmptyDict
                             ELSE (ExpectedCourse.course_id :> ExpectedCourse),
                 saved |-> TRUE]

\* The enrichment has ended with the answers, the records and the pages of
\* both textbooks in place although reads completed out of order.
C28_EnrichedOutOfOrder ==
    /\ enrich_pc = "done"
    /\ out_of_order
    /\ no_data = {}
    /\ DOMAIN enriching.textbooks = {1, 2}
    /\ enriching.textbooks[1].chapters[11].sections[111].pages[1111]
          .elements[1].questions[2].question_answer_list = <<"answer", 2>>
    /\ enriching.textbooks[1].chapters[11].sections[111].pages[1111].is_complete

\* The enrichment under the scheduling of the event loop: every read that was
\* issued completes and every step that can be taken is taken.
SpecEnrichReturns == SpecEnrich /\ WF_vars(NextEnrich)

\* The chapter ids the server lists for a textbook.
ServerChapterIds(tid) ==
    {ServerDirectory(tid).chapters[i].nodeid : i \in DOMAIN ServerDirectory(tid).chapters}

\* Every answer list has data.
AnswersServed == ~\E request \in no_data : request[1] = "answers"

\* Each unit of the tree at the end of the loops was enriched exactly when
\* the reads for it and for the units above it had data.
EnrichedWhereServed ==
    \A tid \in DOMAIN enriching.textbooks :
       LET chapters == enriching.textbooks[tid].chapters
       IN  IF <<"textbooks", tid>> \in no_data THEN chapters = EmptyDict
           ELSE /\ DOMAIN chapters = ServerChapterIds(tid)
                /\ \A cid \in DOMAIN chapters :
                   \A sid \in DOMAIN chapters[cid].sections :
                   \A pid \in DOMAIN chapters[cid].sections[sid].pages :
                      LET page == chapters[cid].sections[sid].pages[pid]
                      IN  /\ (page.elements # <<>>) = (<<"chapters", cid>> \notin no_data)
                          /\ page.is_complete =
                                (/\ <<"chapters", cid>> \notin no_data
                                 /\ <<"records", sid>> \notin no_data
                                 /\ ServerRecord(sid) # NotStudied)

\* C29: a textbook whose directory has no data, a chapter whose detail has no
\* data and a section whose study-record fetch fails are each skipped alone.
\* The enrichment is never ended by one of them, at the end of the loops
\* every other unit is enriched, and when no answer list is missing the
\* enrichment runs to its end.
C29_SkippedIndividually ==
    /\ [](enrich_pc = "failed" =>
             /\ gathered.level = "answers"
             /\ \E id \in DOMAIN gathered.results : <<"answers", id>> \in no_data)
    /\ [](enrich_pc = "prune" => EnrichedWhereServed)
    /\ (AnswersServed => <>(enrich_pc = "done"))

\* The enrichment ended after chapter 11 had no detail and the record of
\* section 121 could not be fetched: chapter 12 has its elements, textbook 2
\* its record.
C29_EndedAfterSkips ==
    /\ enrich_pc = "done"
    /\ no_data = {<<"chapters", 11>>, <<"records", 121>>}
    /\ user_courses.saved
    /\ DOMAIN enriching.textbooks = {1, 2}
    /\ enriching.textbooks[1].chapters[11].sections[111].pages[1111].elements = <<>>
    /\ enriching.textbooks[1].chapters[12].sections[121].pages[1211].elements # <<>>
    /\ ~enriching.textbooks[1].chapters[12].sections[121].pages[1211].is_complete
    /\ enriching.textbooks[2].chapters[21].sections[211].pages[2111].is_complete

\* C30: when the answer list of a question has no data only that question is
\* skipped. The enrichment is not ended by it: it goes on with the other
\* questions and units, and ends with the configuration assigned and saved.
C30_Original ==
    /\ enrich_pc # "failed"
    /\ enrich_pc = "done" => user_courses.saved

------------------------------------------------------------------------------
\* Claims about the outcome of the submission loop

\* C36: for each section and pass the submission loop ends with the outcome
\* "reported successfully" exactly when the server accepted a submission: an
\* accepted attempt is never treated as a failed, skipped submission.
C36_Original ==
    sect.outcome # "none" => ((sect.outcome = "success") = sect.accepted)

------------------------------------------------------------------------------
\* Claims about the numbers and the pages of a report

\* C32: every page entry of every report has studyTime at most 3600 seconds,
\* for every content type, video pages with any videos included.
C32_Original ==
    (rep_pc = "built" /\ report # None) =>
       \A i \in DOMAIN ReportList : ReportList[i].studyTime <= StudyTimeCap

\* C37: every video record of every report is well-formed for every video
\* length: 0 <= current = recordTime <= time and startTime <= endTime, also
\* for a video shorter than 8 seconds.
C37_Original ==
    SecondPassBuilt =>
       \A t \in VideoRecords :
          LET v == VideoRecord(t)
          IN  /\ 0 <= v.current
              /\ v.current = v.recordTime
              /\ v.recordTime <= v.time
              /\ v.startEndTimeList[1].startTime <= v.startEndTimeList[1].endTime

\* The pageid sequence of a report.
PageIds(request) ==
    [i \in DOMAIN request.pageStudyRecordDTOList |->
        request.pageStudyRecordDTOList[i].pageid]

\* The first-pass report of the section.
FirstPassReport ==
    BuildSyncStudyRecordRequest(1000, section_info, "user", study_time_config,
                                TRUE, NoDraw)

\* The relation ids of the pages of a section whose content type is in
\* types, in the order the loop visits the pages.
RelationIdsOf(section, types) ==
    LET keys == Keys({pid \in DOMAIN section.pages :
                         section.pages[pid].page_content_type \in types})
    IN  [j \in DOMAIN keys |-> section.pages[keys[j]].page_relation_id]

\* C38 as stated: for the same section the second-pass report holds entries
\* for exactly the pages of the first-pass report, in the same order.
C38_Original ==
    (rep_pc = "built" /\ ~is_first) =>
       /\ report # None
       /\ PageIds(report) = PageIds(FirstPassReport)

\* C38 (amended): the first-pass report names every page of the section, the
\* second-pass report, when it can be built, the pages of content type 5, 6
\* and 7 in the same order: a page of another type is in the first-pass
\* report only, and the two reports name the same pages exactly when the
\* section has no such page.
C38_SamePagesOfKnownTypes ==
    (rep_pc = "built" /\ ~is_first) =>
       /\ PageIds(FirstPassReport) = RelationIdsOf(section_info, ContentTypes)
       /\ report # None =>
             PageIds(report) = RelationIdsOf(section_info, {5, 6, 7})

\* C38 happens: a section of a page of type 8 and a video page; the second
\* pass reports the video page alone, the first pass both.
C38_UnknownPageOnlyInFirst ==
    /\ SecondPassBuilt
    /\ DOMAIN section_info.pages = {1, 2}
    /\ section_info.pages[1].page_content_type = 8
    /\ section_info.pages[2].page_content_type = 6
    /\ PageIds(FirstPassReport) = <<11, 12>>
    /\ PageIds(report) = <<12>>

(***************************************************************************)
(* UserManager.__add_user and the __login it calls                         *)
(***************************************************************************)
\* `if retry >= 3` of the login loop of __add_user
LoginRetryLimit == 3

\* Most accounts entered in one __add_user.
MaxAdds == 2

Usernames == {"u1", "u2"}

Passwords == {"old", "new"}

\* UserConfig(username=..., password=..., site=...): token, cookies and
\* courses at their defaults.
UserConfig(username, password) ==
    [site |-> "site", username |-> username, password |-> password,
     token |-> "abc", cookies |-> EmptyDict, courses |-> EmptyDict]

\* A user that logged in and configured a course before.
StoredUser(username) ==
    [UserConfig(username, "old") EXCEPT
        !.token = "token", !.cookies = ("session" :> "cookie"),
        !.courses = (1 :> NoCourse)]

\* The cookies and the token a successful login leaves in the user config.
LoggedIn(user_config) ==
    [user_config EXCEPT !.token = "new token",
                        !.cookies = ("session" :> "new cookie")]

InitUsers ==
    /\ HttpIdle
    /\ TreeIdle
    /\ ReportIdle
    /\ RunIdle
    /\ EnrichIdle
    /\ manage = NoOperation
    /\ accounts \in
          {[NoAccounts EXCEPT !.users = users, !.before = users] :
              users \in {EmptyDict, ("u1" :> StoredUser("u1")),
                         ("u1" :> StoredUser("u1")) @@ ("u2" :> StoredUser("u2"))}}

\* __add_user is chosen in the menu: the site and the user name are asked.
AddUser ==
    /\ accounts.pc = "menu"
    /\ accounts' = [accounts EXCEPT !.pc = "prompt", !.adds = 0]
    /\ UNCHANGED <<httpVars, treeVars, repVars, runVars, enrVars, manage>>

\* The head of the outer loop, up to the first login: a user name that
\* exists and is not to be overwritten ends __add_user; else the new
\* UserConfig is stored under the user name and the login loop starts.
EnterAccount(username, confirm, password) ==
    /\ accounts.pc = "prompt"
    /\ accounts.adds < MaxAdds
    /\ IF username \in DOMAIN accounts.users /\ ~confirm
          THEN accounts' = [accounts EXCEPT !.pc = "menu", !.outcome = "declined",
                                            !.before = accounts.users,
                                            !.username = username,
                                            !.overwrite = FALSE,
                                            !.adds = @ + 1]
          ELSE accounts' = [accounts EXCEPT
                  !.pc = "login",
                  !.outcome = "none",
                  !.before = accounts.users,
                  !.username = username,
                  !.overwrite = username \in DOMAIN accounts.users,
                  !.users = Put(@, username, UserConfig(username, password)),
                  !.retry = 0,
                  !.logins = 0,
                  !.adds = @ + 1]
    /\ UNCHANGED <<httpVars, treeVars, repVars, runVars, enrVars, manage>>

\* `await self.__login(user_config)` returns. A session that is still valid
\* and a login that succeeds end __add_user, the login writing its cookies
\* and token into the user config; a failed login (also one that raised) is
\* retried after a sleep until retry >= 3, then the loop is left and the
\* user name is popped.
Login(status) ==
    /\ accounts.pc = "login"
    /\ IF status \in {"valid", "logged in"}
          THEN accounts' = [accounts EXCEPT
                  !.pc = "menu",
                  !.outcome = "added",
                  !.logins = @ + 1,
                  !.users[accounts.username] =
                     IF status = "valid" THEN @ ELSE LoggedIn(@)]
       ELSE IF accounts.retry >= LoginRetryLimit
          THEN accounts' = [accounts EXCEPT
                  !.pc = "prompt",
                  !.outcome = "gave up",
                  !.logins = @ + 1,
                  !.users = Restrict(@, DOMAIN @ \ {accounts.username})]
       ELSE accounts' = [accounts EXCEPT !.pc = "sleep", !.logins = @ + 1,
                                         !.retry = @ + 1]
    /\ UNCHANGED <<httpVars, treeVars, repVars, runVars, enrVars, manage>>

\* `await asyncio.sleep(1)` of the login loop
LoginSleep ==
    /\ accounts.pc = "sleep"
    /\ accounts' = [accounts EXCEPT !.pc = "login"]
    /\ UNCHANGED <<httpVars, treeVars, repVars, runVars, enrVars, manage>>

NextUsers ==
    \/ AddUser
    \/ \E username \in Usernames, confirm \in BOOLEAN, password \in Passwords :
          EnterAccount(username, confirm, password)
    \/ \E status \in {"valid", "logged in", "failed"} : Login(status)
    \/ LoginSleep

SpecUsers == InitUsers /\ [][NextUsers]_vars

\* C39: when every login attempt for a newly entered account fails, the
\* initial attempt and 3 retries, the configured users are what they were
\* before the account was entered; a user that existed under the entered
\* name and was to be overwritten is still there with its credentials,
\* token, cookies and courses.
C39_Original ==
    accounts.outcome = "gave up" =>
       /\ accounts.logins = LoginRetryLimit + 1
       /\ accounts.users = accounts.before

(***************************************************************************)
(* The operations of the courseware menu on the user's course map:         *)
(* CoursewareManager.__courseware_config, __remove_courseware and          *)
(* __prune_completed_courseware                                            *)
(***************************************************************************)
\* Most operations chosen in the menu one after another.
MaxOps == 2

\* The user's courses before the menu is opened: course 9 with textbook 3,
\* whose chapter 31 has section 311 (page 3111 open, page 3112 complete)
\* and whose chapter 32 has section 321 (page 3211 open).
PreviousCourses ==
    9 :> [ModelCourse(
            3 :> ModelTextbook(3,
                    (31 :> CoursewareChapter(31,
                              311 :> CoursewareSection(311,
                                        (3111 :> CoursewarePage(3111, 3611, 5, FALSE,
                                                                <<ElementDocumen>>))
                                        @@ (3112 :> CoursewarePage(3112, 3612, 6, TRUE,
                                                       <<ElementVideo(1, 600)>>)))))
                    @@ (32 :> CoursewareChapter(32,
                                 321 :> CoursewareSection(321,
                                           3211 :> CoursewarePage(3211, 3711, 5, FALSE,
                                                                  <<ElementContent>>))))))
          EXCEPT !.course_id = 9]

\* What the server lists: the courses 7 and 8; under course 7 the textbooks
\* 1 and 2, under course 8 the textbook 2 again.
ListedCourses == {7, 8}

ListedTextbooks(course_id) == IF course_id = 7 THEN {1, 2} ELSE {2}

\* TextbookListAPIResponse.TextbookInfo as listed under a course
TextbookName(course_id, id) ==
    IF course_id = 8 THEN "textbook 2 of course 8"
    ELSE IF id = 1 THEN "textbook 1 of course 7"
    ELSE "textbook 2 of course 7"

TextbookInfo(course_id, id) ==
    [courseId |-> id, name |-> TextbookName(course_id, id), status |-> 1,
     limit |-> 0]

\* get_textbooks(course_id): no data, or the textbooks of the course.
GetTextbooksResponse(course_id) ==
    IF <<"lists", course_id>> \in no_data THEN None
    ELSE [textbooks |-> [i \in 1..Cardinality(ListedTextbooks(course_id)) |->
                            TextbookInfo(course_id,
                                         Keys(ListedTextbooks(course_id))[i])]]

\* The reads a configuration can issue.
ConfigRequests ==
    {<<"courses", 0>>, <<"lists", 7>>, <<"lists", 8>>, <<"textbooks", 2>>,
     <<"chapters", 11>>, <<"answers", 2>>}

\* An entry of textbook_choices:
\* f"'{course name}' [{textbook_id}] {textbook_info.name}"
TextbookChoice(course_id, tid, info) ==
    [course |-> course_id, textbook_id |-> tid, name |-> info.name]

\* textbook_choices, from selected_course_textbook_infos
TextbookChoices(infos) ==
    UNION {{TextbookChoice(cid, tid, infos[cid][tid]) : tid \in DOMAIN infos[cid]} :
           cid \in DOMAIN infos}

\* int(textbook_id.split("'")[2].split("[")[1].split("]")[0].strip()): the
\* number between the first brackets behind the quoted course name (names
\* hold no quote here).
SelectedTextbookId(choice) == choice.textbook_id

\* selected_textbook_infos: the textbooks of the listed courses whose id is
\* among the selected ids, keyed by the textbook id; of two courses that
\* list the id the later one gives the info.
SelectedTextbookInfos(infos, selected) ==
    [tid \in {t \in UNION {DOMAIN infos[c] : c \in DOMAIN infos} :
                 \E choice \in selected : SelectedTextbookId(choice) = t} |->
        infos[Max({c \in DOMAIN infos : tid \in DOMAIN infos[c]})][tid]]

\* The selected courses whose textbook list was not fetched:
\* selected_course_textbook_infos[course_id] raises KeyError for them.
NotListed(selected_course_ids, infos) == selected_course_ids \ DOMAIN infos

\* The comprehension that builds course_config: every selected course with
\* those selected textbooks that its list holds. It raises for a selected
\* course without list as soon as one textbook is selected.
BuildCourseConfig(selected_course_ids, infos, selected_textbook_infos) ==
    IF /\ NotListed(selected_course_ids, infos) # {}
       /\ selected_textbook_infos # EmptyDict
       THEN [raised |-> TRUE, course_config |-> EmptyDict]
       ELSE [raised |-> FALSE,
             course_config |->
                [cid \in selected_course_ids |->
                    [ModelCourse(
                        [tid \in DOMAIN selected_textbook_infos
                                    \cap DOMAIN infos[cid] |->
                            [ModelTextbook(tid, EmptyDict) EXCEPT
                                !.textbook_name =
                                   selected_textbook_infos[tid].name]])
                     EXCEPT !.course_id = cid]]]

\* The variables of the enrichment that the menu leaves alone.
enrRest == <<enrich_pc, enriching, gathered, parsed_infos, position, out_of_order>>

\* An operation of the menu starts, and ends with an outcome.
NewOperation(stored) ==
    [NoOperation EXCEPT !.ops = manage.ops, !.before = stored]

EndOperation(m, op, outcome) ==
    [m EXCEPT !.pc = "menu", !.op = op, !.outcome = outcome, !.ops = @ + 1]

\* The enrichment of one course of course_config as __complete_courseware
\* does it, whatever the order in which its reads complete.
CompleteCourse(course) ==
    ExpectedTextbooks(course, Keys(DOMAIN course.textbooks), 1)

\* `if not resp_question_answer_list: ... raise` is reached in the
\* enrichment of the courses: a question of a question page has no answers.
Raises(crs) ==
    \E cid \in DOMAIN crs :
       \E path \in TreePages(crs[cid]) :
          \E page \in {PageAt(crs[cid], path)} :
             /\ page.page_content_type = 7
             /\ \E e \in DOMAIN page.elements :
                   \E q \in DOMAIN page.elements[e].questions :
                      ApiResponse("answers",
                         page.elements[e].questions[q].question_id) = None

\* A configuration that ends in `except Exception` would assign and save
\* what it has built.
SavedInFinally(stored, built) == [courses |-> built, saved |-> TRUE]

\* `except Exception` of __courseware_config: the error is logged and None
\* returned; the stored courses are not touched.
OnConfigError(stored, built) == stored

\* __courseware_config is chosen in the menu: `courses = await
\* get_courses(); if not courses: return None`, else the course prompt.
CoursewareConfig ==
    /\ manage.pc = "menu"
    /\ manage.ops < MaxOps
    /\ \E m \in {NewOperation(user_courses.courses)} :
          manage' = IF <<"courses", 0>> \in no_data
                       THEN EndOperation(m, "config", "returned")
                       ELSE [m EXCEPT !.pc = "select courses", !.op = "config"]
    /\ user_courses' = [user_courses EXCEPT !.saved = FALSE]
    /\ UNCHANGED <<enrRest, no_data, accounts>>
    /\ UNCHANGED <<httpVars, treeVars, repVars, runVars>>

\* The answer of the course checkbox, which is not empty; the loop over the
\* selected courses starts.
SelectCourses(ids) ==
    /\ manage.pc = "select courses"
    /\ ids # {}
    /\ manage' = [manage EXCEPT !.pc = "lists", !.selected_course_ids = ids,
                                !.todo = Keys(ids)]
    /\ UNCHANGED <<enrRest, no_data, user_courses, accounts>>
    /\ UNCHANGED <<httpVars, treeVars, repVars, runVars>>

\* One pass of the loop over the selected courses: `textbooks = await
\* get_textbooks(course_id); if not textbooks: continue`, else the textbooks
\* are entered under the course. After the last pass: `if not
\* textbook_choices: return None`, else the textbook prompt.
GetTextbooks ==
    /\ manage.pc = "lists"
    /\ \E course_id \in {Head(manage.todo)} :
       \E textbooks \in {GetTextbooksResponse(course_id)} :
       \E infos \in {IF textbooks = None THEN manage.selected_course_textbook_infos
                     ELSE Put(manage.selected_course_textbook_infos, course_id,
                              [tid \in {textbooks.textbooks[i].courseId :
                                           i \in DOMAIN textbooks.textbooks} |->
                                  CHOOSE info \in {textbooks.textbooks[i] :
                                                      i \in DOMAIN textbooks.textbooks} :
                                     info.courseId = tid])} :
       \E m \in {[manage EXCEPT !.todo = Tail(@),
                                !.selected_course_textbook_infos = infos]} :
          manage' = IF m.todo # <<>> THEN m
                    ELSE IF TextbookChoices(infos) = {}
                       THEN EndOperation(m, "config", "returned")
                    ELSE [m EXCEPT !.pc = "select textbooks"]
    /\ UNCHANGED <<enrRest, no_data, user_courses, accounts>>
    /\ UNCHANGED <<httpVars, treeVars, repVars, runVars>>

\* The answer of the textbook checkbox, which is not empty: the ids are
\* parsed from the choices and course_config is built; a KeyError ends the
\* configuration in its except.
SelectTextbooks(chosen) ==
    /\ manage.pc = "select textbooks"
    /\ chosen # {}
    /\ chosen \subseteq TextbookChoices(manage.selected_course_textbook_infos)
    /\ \E built \in {BuildCourseConfig(manage.selected_course_ids,
                        manage.selected_course_textbook_infos,
                        SelectedTextbookInfos(manage.selected_course_textbook_infos,
                                              chosen))} :
       \E m \in {[manage EXCEPT !.chosen = chosen,
                                !.selected_textbook_ids =
                                   {SelectedTextbookId(choice) : choice \in chosen},
                                !.course_config = built.course_config]} :
          IF built.raised
             THEN /\ manage' = EndOperation(m, "config", "failed")
                  /\ user_courses' = OnConfigError(user_courses, built.course_config)
             ELSE /\ manage' = [m EXCEPT !.pc = "complete"]
                  /\ UNCHANGED user_courses
    /\ UNCHANGED <<enrRest, no_data, accounts>>
    /\ UNCHANGED <<httpVars, treeVars, repVars, runVars>>

\* `await self.__complete_courseware(course_config)`, then
\* `self.user_config.courses = course_config; self.config.save()`: every
\* course is enriched and pruned and the courses without textbooks are
\* popped; an answer list without data raises and ends the configuration in
\* its except.
CompleteAndSave ==
    /\ manage.pc = "complete"
    /\ \E enriched \in {[cid \in DOMAIN manage.course_config |->
                            CompleteCourse(manage.course_config[cid])]} :
          IF Raises(enriched)
             THEN /\ manage' = EndOperation(manage, "config", "failed")
                  /\ user_courses' = OnConfigError(user_courses, enriched)
             ELSE \E completed \in {PruneCourses(enriched, FALSE)} :
                     /\ manage' = EndOperation([manage EXCEPT !.course_config = completed],
                                               "config", "done")
                     /\ user_courses' = [courses |-> completed, saved |-> TRUE]
    /\ UNCHANGED <<enrRest, no_data, accounts>>
    /\ UNCHANGED <<httpVars, treeVars, repVars, runVars>>

\* The pages a section is left with, looked up by the relation id of the
\* page instead of its page id.
PagesLeftByRelationId(pages, selected_page_ids) ==
    Restrict(pages, {p \in DOMAIN pages :
                        pages[p].page_relation_id \notin selected_page_ids})

\* `for page_id in selected_page_ids: pages.pop(page_id)`, with the ids
\* parsed from the choices f"[{status}][{page_id}] {page_name}" by
\* int(page_id.split("][")[1].split("]")[0].strip())
PagesLeft(pages, selected_page_ids) ==
    Restrict(pages, DOMAIN pages \ selected_page_ids)

\* The textbook, chapter, section and page loops of __remove_courseware over
\* one course: picks holds the <<textbook, chapter, section, page>> ids of
\* the pages selected in the prompts of the sections.
RemovePages(course, picks) ==
    [course EXCEPT !.textbooks =
        [t \in DOMAIN course.textbooks |->
            [course.textbooks[t] EXCEPT !.chapters =
                [c \in DOMAIN course.textbooks[t].chapters |->
                    [course.textbooks[t].chapters[c] EXCEPT !.sections =
                        [s \in DOMAIN course.textbooks[t].chapters[c].sections |->
                            [course.textbooks[t].chapters[c].sections[s] EXCEPT
                                !.pages =
                                   PagesLeft(@, {path[4] : path \in
                                      {pk \in picks : /\ pk[1] = t
                                                      /\ pk[2] = c
                                                      /\ pk[3] = s}})]]]]]]]

\* `courses[course_id].prune(); if not courses[course_id].textbooks:
\* courses.pop(course_id)` after the loops of a course
PruneCourse(crs, course_id, course) ==
    IF DOMAIN CoursePrune(course, FALSE).textbooks = {}
       THEN Restrict(crs, DOMAIN crs \ {course_id})
       ELSE Put(crs, course_id, CoursePrune(course, FALSE))

\* __remove_courseware is chosen in the menu: without courses it returns;
\* the confirmation declined or "取消" among the selected courses ends it;
\* else the loop over the selected courses starts.
RemoveCourseware(confirm, cancel, ids) ==
    /\ manage.pc = "menu"
    /\ manage.ops < MaxOps
    /\ ids \subseteq DOMAIN user_courses.courses
    /\ (ids = {}) = (~confirm \/ cancel \/ user_courses.courses = EmptyDict)
    /\ \E m \in {NewOperation(user_courses.courses)} :
          manage' = IF user_courses.courses = EmptyDict
                       THEN EndOperation(m, "remove", "returned")
                    ELSE IF ~confirm \/ cancel
                       THEN EndOperation(m, "remove", "cancelled")
                    ELSE [m EXCEPT !.pc = "remove", !.op = "remove",
                                   !.selected_course_ids = ids, !.todo = Keys(ids)]
    /\ user_courses' = [user_courses EXCEPT !.saved = FALSE]
    /\ UNCHANGED <<enrRest, no_data, accounts>>
    /\ UNCHANGED <<httpVars, treeVars, repVars, runVars>>

\* One pass of the loop over the selected courses: "取消" among the
\* selected textbooks returns without saving; else the selected pages are
\* popped and the course is pruned. After the last pass the configuration
\* is saved.
RemovePagesOfCourse(cancel, picks) ==
    /\ manage.pc = "remove"
    /\ \E course_id \in {Head(manage.todo)} :
          /\ picks # {}
          /\ picks \subseteq TreePages(user_courses.courses[course_id])
          /\ IF cancel
                THEN /\ manage' = EndOperation(manage, "remove", "cancelled")
                     /\ UNCHANGED user_courses
                ELSE \E m \in {[manage EXCEPT
                                   !.todo = Tail(@),
                                   !.picks = @ \cup {<<course_id, path>> :
                                                        path \in picks}]} :
                        /\ manage' = IF m.todo = <<>>
                                        THEN EndOperation(m, "remove", "done")
                                        ELSE m
                        /\ user_courses' =
                              [courses |->
                                  PruneCourse(user_courses.courses, course_id,
                                     RemovePages(user_courses.courses[course_id],
                                                 picks)),
                               saved |-> m.todo = <<>>]
    /\ UNCHANGED <<enrRest, no_data, accounts>>
    /\ UNCHANGED <<httpVars, treeVars, repVars, runVars>>

\* What the fetches of the study records return in one
\* __prune_completed_courseware, by the position of the section in its
\* textbook: nothing studied, everything complete, or everything complete
\* but the first fetch failed.
MenuResults ==
    {[i \in 1..(MaxRunSections + 1) |-> r] : r \in {"none", "complete"}}
       \cup {[i \in 1..(MaxRunSections + 1) |->
                 IF i = 1 THEN "failed" ELSE "complete"]}

\* __prune_completed_courseware is chosen in the menu: without courses it
\* returns; else the study records are fetched and parsed, every course is
\* pruned of its complete pages and the configuration is saved.
PruneCompleted(results) ==
    /\ manage.pc = "menu"
    /\ manage.ops < MaxOps
    /\ \E m \in {NewOperation(user_courses.courses)} :
          IF user_courses.courses = EmptyDict
             THEN /\ manage' = EndOperation(m, "prune", "returned")
                  /\ user_courses' = [user_courses EXCEPT !.saved = FALSE]
             ELSE /\ manage' = EndOperation(m, "prune", "done")
                  /\ user_courses' =
                        [courses |-> PruneCompletedCourseware(user_courses.courses,
                                                              results),
                         saved |-> TRUE]
    /\ UNCHANGED <<enrRest, no_data, accounts>>
    /\ UNCHANGED <<httpVars, treeVars, repVars, runVars>>

InitManage ==
    /\ HttpIdle
    /\ TreeIdle
    /\ ReportIdle
    /\ RunIdle
    /\ enrich_pc = "done"
    /\ no_data \in {S \in SUBSET ConfigRequests : Cardinality(S) <= MaxNoData}
    /\ enriching = NoCourse
    /\ gathered = NoGather
    /\ parsed_infos = NothingParsed
    /\ position = NotEntered
    /\ out_of_order = FALSE
    /\ user_courses = [courses |-> PreviousCourses, saved |-> FALSE]
    /\ manage = NoOperation
    /\ accounts = NoAccounts

\* The pages of the course the loop of __remove_courseware is at.
PagesOfCourse ==
    IF manage.pc = "remove"
       THEN TreePages(user_courses.courses[Head(manage.todo)])
       ELSE {}

NextManage ==
    \/ CoursewareConfig
    \/ \E ids \in SUBSET ListedCourses : SelectCourses(ids)
    \/ GetTextbooks
    \/ \E chosen \in SUBSET TextbookChoices(manage.selected_course_textbook_infos) :
          SelectTextbooks(chosen)
    \/ CompleteAndSave
    \/ \E confirm, cancel \in BOOLEAN :
          \E ids \in SUBSET DOMAIN user_courses.courses :
             RemoveCourseware(confirm, cancel, ids)
    \/ \E cancel \in BOOLEAN :
          \E picks \in SUBSET PagesOfCourse :
             RemovePagesOfCourse(cancel, picks)
    \/ \E results \in MenuResults : PruneCompleted(results)

SpecManage == InitManage /\ [][NextManage]_vars

------------------------------------------------------------------------------
\* Claims about the operations of the courseware menu

\* A configuration has returned to the menu.
ConfigEnded == manage.pc = "menu" /\ manage.op = "config"

\* C31: a selected course whose textbook list is not fetched is skipped and
\* the configuration completes for the other selected courses: when a
\* textbook was selected and no answer list is missing, the configuration
\* ends done although the list of a selected course had no data.
C31_Original ==
    (/\ ConfigEnded
     /\ manage.chosen # {}
     /\ NotListed(manage.selected_course_ids,
                  manage.selected_course_textbook_infos) # {}
     /\ <<"answers", 2>> \notin no_data)
       => /\ manage.outcome = "done"
          /\ \A choice \in manage.chosen :
                /\ choice.course \in DOMAIN user_courses.courses
                /\ choice.textbook_id \in
                      DOMAIN user_courses.courses[choice.course].textbooks

\* C40: the configured courses hold textbook T under course C only if the
\* choice for T listed under C was selected.
C40_Original ==
    (ConfigEnded /\ manage.outcome = "done") =>
       \A cid \in DOMAIN user_courses.courses :
          \A tid \in DOMAIN user_courses.courses[cid].textbooks :
             \E choice \in manage.chosen :
                choice.course = cid /\ choice.textbook_id = tid

\* C35: the configuration is all or nothing. Until it has ended done the
\* user's courses are those stored before it and nothing is saved; it ends
\* done only after a selection and an enrichment without error, with the
\* enriched courses assigned and saved.
C35_AllOrNothing ==
    manage.op = "config" =>
       IF manage.pc = "menu" /\ manage.outcome = "done"
          THEN /\ manage.chosen # {}
               /\ ~Raises(manage.course_config)
               /\ user_courses = [courses |-> manage.course_config, saved |-> TRUE]
          ELSE user_courses = [courses |-> manage.before, saved |-> FALSE]

\* A configuration failed in the enrichment of the courses it had built,
\* and the courses stored before it are still the user's.
C35_FailedAfterBuild ==
    /\ ConfigEnded
    /\ manage.outcome = "failed"
    /\ manage.course_config # EmptyDict
    /\ manage.before # EmptyDict
    /\ user_courses.courses = manage.before

\* The pages of a course of the map before the deletion that were selected
\* in a pass of its loop, and those that were not.
PickedPages(cid) ==
    {path \in TreePages(manage.before[cid]) : <<cid, path>> \in manage.picks}

UnpickedPages(cid) == TreePages(manage.before[cid]) \ PickedPages(cid)

\* The containers above a page are those they were before the deletion, but
\* for the children they hold.
SameContainers(after, before, path) ==
    /\ [after EXCEPT !.textbooks = EmptyDict] = [before EXCEPT !.textbooks = EmptyDict]
    /\ [after.textbooks[path[1]] EXCEPT !.chapters = EmptyDict] =
          [before.textbooks[path[1]] EXCEPT !.chapters = EmptyDict]
    /\ [after.textbooks[path[1]].chapters[path[2]] EXCEPT !.sections = EmptyDict] =
          [before.textbooks[path[1]].chapters[path[2]] EXCEPT !.sections = EmptyDict]
    /\ [after.textbooks[path[1]].chapters[path[2]].sections[path[3]]
           EXCEPT !.pages = EmptyDict] =
          [before.textbooks[path[1]].chapters[path[2]].sections[path[3]]
              EXCEPT !.pages = EmptyDict]

\* C33: a deletion removes exactly the pages whose page id was selected.
\* During and after __remove_courseware no course has appeared; a course
\* whose pages were all selected is gone; every other course holds exactly
\* its pages that were not selected, each at its place, with the
\* is_complete and the elements it had, complete or not, under the
\* containers it had.
C33_ExactlySelected ==
    manage.op = "remove" =>
       /\ DOMAIN user_courses.courses \subseteq DOMAIN manage.before
       /\ \A cid \in DOMAIN manage.before :
             IF UnpickedPages(cid) = {}
                THEN cid \notin DOMAIN user_courses.courses
                ELSE /\ cid \in DOMAIN user_courses.courses
                     /\ TreePages(user_courses.courses[cid]) = UnpickedPages(cid)
                     /\ \A path \in UnpickedPages(cid) :
                           /\ PageAt(user_courses.courses[cid], path) =
                                 PageAt(manage.before[cid], path)
                           /\ SameContainers(user_courses.courses[cid],
                                             manage.before[cid], path)

\* A deletion has ended done that took an open page of a section and left
\* the complete page beside it, and that emptied another chapter, which is
\* gone.
C33_CompleteNeighbourKept ==
    /\ manage.pc = "menu"
    /\ manage.op = "remove"
    /\ manage.outcome = "done"
    /\ user_courses.saved
    /\ \E cid \in DOMAIN user_courses.courses :
          /\ \E picked \in PickedPages(cid), kept \in UnpickedPages(cid) :
                /\ picked[3] = kept[3]
                /\ ~PageAt(manage.before[cid], picked).is_complete
                /\ PageAt(user_courses.courses[cid], kept).is_complete
          /\ \E picked \in PickedPages(cid) :
                picked[2] \notin DOMAIN user_courses.courses[cid]
                                           .textbooks[picked[1]].chapters

\* No course without textbooks, no textbook without chapters, no chapter
\* without sections and no section without pages.
NoEmptyContainer(crs) ==
    \A cid \in DOMAIN crs :
       /\ DOMAIN crs[cid].textbooks # {}
       /\ \A t \in DOMAIN crs[cid].textbooks :
             /\ DOMAIN crs[cid].textbooks[t].chapters # {}
             /\ \A c \in DOMAIN crs[cid].textbooks[t].chapters :
                   /\ DOMAIN crs[cid].textbooks[t].chapters[c].sections # {}
                   /\ \A s \in DOMAIN crs[cid].textbooks[t].chapters[c].sections :
                         DOMAIN crs[cid].textbooks[t].chapters[c].sections[s].pages # {}

\* C34: after a configuration with its enrichment clean-up, a deletion or a
\* prune-completed has ended, and during a deletion after each course, the
\* user's courses hold no empty container.
C34_NoEmptyContainer ==
    manage.op \in {"config", "remove", "prune"} =>
       NoEmptyContainer(user_courses.courses)

\* A configuration has ended done and a selected course, left without
\* textbooks by the clean-up of the enrichment, is not among the user's
\* courses.
C34_CourseWithoutTextbooksGone ==
    /\ ConfigEnded
    /\ manage.outcome = "done"
    /\ user_courses.courses # EmptyDict
    /\ \E cid \in manage.selected_course_ids : cid \notin DOMAIN user_courses.courses

====
